---- MODULE Spec2Model ----
(***************************************************************************)
(* S3Grabber: the Replica Resolver and Content Fetcher of                  *)
(* internal/downloader, the Sync Unit of internal/installer, the           *)
(* Orchestrator of internal/s3grabber and the Scheduler loop of            *)
(* cmd/s3grabber.                                                          *)
(***************************************************************************)
EXTENDS Integers, Sequences, FiniteSets, TLC

(***************************************************************************)
(* Bounds of the model.                                                    *)
(***************************************************************************)
\* longest replica list handed to the resolver
MaxReplicas == 2
\* largest modification time a replica reports (0 is Go's zero time.Time)
MaxTime == 3
\* longest object listing one replica returns in prefix mode
MaxList == 1

(***************************************************************************)
(* Error values.  nil is the record with code "nil"; a multierror carries  *)
(* the indices of the replicas whose errors it collected.                  *)
(***************************************************************************)
Err(code) == [code |-> code, at |-> <<>>]
Nil == Err("nil")
MultiErr(at) == [code |-> "multierror", at |-> at]
\* fmt.Errorf("...: %w", err): the wrapped error is kept, the text is prefixed
Wrap(prefix, e) == [code |-> prefix, at |-> e.at]

(***************************************************************************)
(* What one replica answers.  StatObject: the object with its              *)
(* LastModified, the NoSuchKey error response, or any other error.         *)
(* ListObjects: a sequence of such items (an item with Err set, or an      *)
(* object; a common prefix is listed with the zero LastModified).          *)
(***************************************************************************)
Obj(t) == [k |-> "obj", t |-> t]
NotFound == [k |-> "NoSuchKey", t |-> 0]
Failure == [k |-> "failure", t |-> 0]
StatAnswers == {NotFound, Failure} \cup {Obj(t) : t \in 1..MaxTime}

SeqsUpTo(S, n) == UNION {[1..k -> S] : k \in 0..n}

(***************************************************************************)
(* downloader.go: FindNewestFile and FindNewestInPrefix.                   *)
(* The accumulator holds the named results modTime and bucketIndex (zero   *)
(* values at entry) and the locals errs and checkedOne.                    *)
(***************************************************************************)
ScanStart == [modTime |-> 0, bucketIndex |-> 0, errs |-> <<>>, checkedOne |-> FALSE]

\* a variant of After that also accepts an equal time
AfterOrEqual(t, u) == t >= u

\* time.Time.After
After(t, u) == t > u

\* a variant of the loop body that keeps the first index it stored
ScanStepKeepsIndex(acc, i, item) ==
    IF item.k = "failure"
    THEN [acc EXCEPT !.errs = Append(@, i)]
    ELSE IF item.k = "NoSuchKey"
    THEN acc
    ELSE IF After(item.t, acc.modTime)
    THEN [acc EXCEPT !.modTime = item.t, !.bucketIndex = IF acc.checkedOne THEN @ ELSE i,
                     !.checkedOne = TRUE]
    ELSE acc

\* the loop body for replica i (0-based) and the item it answered
ScanStep(acc, i, item) ==
    IF item.k = "failure"
    THEN [acc EXCEPT !.errs = Append(@, i)]
    ELSE IF item.k = "NoSuchKey"
    THEN acc
    ELSE IF After(item.t, acc.modTime)
    THEN [acc EXCEPT !.modTime = item.t, !.bucketIndex = i, !.checkedOne = TRUE]
    ELSE acc

\* a variant of the tail that returns the collected errors whenever there are any
ScanFinishErrsFirst(acc) ==
    IF acc.errs # <<>>
    THEN [modTime |-> acc.modTime, bucketIndex |-> acc.bucketIndex, err |-> MultiErr(acc.errs)]
    ELSE IF ~acc.checkedOne
    THEN [modTime |-> acc.modTime, bucketIndex |-> acc.bucketIndex, err |-> Err("no file has been modified")]
    ELSE [modTime |-> acc.modTime, bucketIndex |-> acc.bucketIndex, err |-> Nil]

\* a variant of the tail that fails only on collected errors
ScanFinishNoHitOk(acc) ==
    IF ~acc.checkedOne /\ acc.errs # <<>>
    THEN [modTime |-> acc.modTime, bucketIndex |-> acc.bucketIndex, err |-> MultiErr(acc.errs)]
    ELSE [modTime |-> acc.modTime, bucketIndex |-> acc.bucketIndex, err |-> Nil]

\* the tail after the loop: the returned (modTime, bucketIndex, err)
ScanFinish(acc) ==
    IF ~acc.checkedOne
    THEN IF acc.errs # <<>>
         THEN [modTime |-> acc.modTime, bucketIndex |-> acc.bucketIndex, err |-> MultiErr(acc.errs)]
         ELSE [modTime |-> acc.modTime, bucketIndex |-> acc.bucketIndex, err |-> Err("no file has been modified")]
    ELSE [modTime |-> acc.modTime, bucketIndex |-> acc.bucketIndex, err |-> Nil]

NoClients == [modTime |-> 0, bucketIndex |-> 0, err |-> Err("no clients configured")]

RECURSIVE StatLoop(_, _, _)
StatLoop(stats, i, acc) ==
    IF i > Len(stats) THEN acc
    ELSE StatLoop(stats, i + 1, ScanStep(acc, i - 1, stats[i]))

\* stats[i] is what replica i-1 answers to StatObject
FindNewestFile(stats) ==
    IF Len(stats) = 0 THEN NoClients
    ELSE ScanFinish(StatLoop(stats, 1, ScanStart))

RECURSIVE ListLoop(_, _, _, _)
ListLoop(items, j, i, acc) ==
    IF j > Len(items) THEN acc
    ELSE ListLoop(items, j + 1, i, ScanStep(acc, i, items[j]))

RECURSIVE PrefixLoop(_, _, _)
PrefixLoop(lists, i, acc) ==
    IF i > Len(lists) THEN acc
    ELSE PrefixLoop(lists, i + 1, ListLoop(lists[i], 1, i - 1, acc))

\* lists[i] is what replica i-1 sends on the ListObjects channel
FindNewestInPrefix(lists) ==
    IF Len(lists) = 0 THEN NoClients
    ELSE ScanFinish(PrefixLoop(lists, 1, ScanStart))

(***************************************************************************)
(* downloader.go: indexInBounds, GetFile, GetFiles.  nClients is           *)
(* len(m.clients); getOk is whether the client's GetObject returns without *)
(* error.  contacted is the set of replica indices a request was built for.*)
(***************************************************************************)
\* a variant of the check that accepts the index len(m.clients)
indexInBoundsOffByOne(bucketIndex, nClients) ==
    IF bucketIndex < 0 \/ bucketIndex > nClients
    THEN Err("provided bucket index is out of bounds")
    ELSE Nil

indexInBounds(bucketIndex, nClients) ==
    IF bucketIndex < 0 \/ bucketIndex >= nClients
    THEN Err("provided bucket index is out of bounds")
    ELSE Nil

NoStream == [open |-> FALSE, from |-> 0]
Stream(i) == [open |-> TRUE, from |-> i]

\* a variant that reads from the first client whatever the index
GetFileFirstClient(nClients, bucketIndex, getOk) ==
    IF indexInBounds(bucketIndex, nClients) # Nil
    THEN [rc |-> NoStream, err |-> indexInBounds(bucketIndex, nClients), contacted |-> {}, panic |-> FALSE]
    ELSE IF bucketIndex \notin 0..(nClients - 1)
    THEN [rc |-> NoStream, err |-> Nil, contacted |-> {}, panic |-> TRUE]
    ELSE IF getOk
    THEN [rc |-> Stream(0), err |-> Nil, contacted |-> {0}, panic |-> FALSE]
    ELSE [rc |-> NoStream, err |-> Err("getting"), contacted |-> {0}, panic |-> FALSE]

GetFile(nClients, bucketIndex, getOk) ==
    IF indexInBounds(bucketIndex, nClients) # Nil
    THEN [rc |-> NoStream, err |-> indexInBounds(bucketIndex, nClients), contacted |-> {}, panic |-> FALSE]
    ELSE IF bucketIndex \notin 0..(nClients - 1)
    THEN [rc |-> NoStream, err |-> Nil, contacted |-> {}, panic |-> TRUE]
    ELSE IF getOk
    THEN [rc |-> Stream(bucketIndex), err |-> Nil, contacted |-> {bucketIndex}, panic |-> FALSE]
    ELSE [rc |-> NoStream, err |-> Err("getting"), contacted |-> {bucketIndex}, panic |-> FALSE]

\* GetFiles returns the channel at once; the listing goroutine contacts the replica
GetFiles(nClients, bucketIndex) ==
    IF indexInBounds(bucketIndex, nClients) # Nil
    THEN [rc |-> NoStream, err |-> indexInBounds(bucketIndex, nClients), contacted |-> {}, panic |-> FALSE]
    ELSE IF bucketIndex \notin 0..(nClients - 1)
    THEN [rc |-> NoStream, err |-> Nil, contacted |-> {}, panic |-> TRUE]
    ELSE [rc |-> Stream(bucketIndex), err |-> Nil, contacted |-> {bucketIndex}, panic |-> FALSE]

(***************************************************************************)
(* installer.go: checkLastModTime and the decision at the head of Install. *)
(***************************************************************************)
ErrNoUpdate == Err("no update since the last check")

\* the change time checkLastModTime gets when os.Stat on the target fails
NoStat == 0 - 1

\* a path as IsEmptyDir and os.Stat find it: nothing there, a file, or a
\* directory with its entries
MissingPath == [state |-> "missing", entries |-> {}]
FilePath == [state |-> "notdir", entries |-> {}]
Directory(entries) == [state |-> "dir", entries |-> entries]

\* a variant that takes a path it cannot read for an empty directory
IsEmptyDirTrueOnError(dir) ==
    IF dir.state = "missing"
    THEN [isEmpty |-> TRUE, err |-> Err("open")]
    ELSE IF dir.state = "notdir"
    THEN [isEmpty |-> TRUE, err |-> Err("readdir")]
    ELSE [isEmpty |-> dir.entries = {}, err |-> Nil]

\* IsEmptyDir, lines 188-200: os.Open fails on a missing path; Readdir(1)
\* gives io.EOF on an empty directory and another error on a file
IsEmptyDir(dir) ==
    IF dir.state = "missing"
    THEN [isEmpty |-> FALSE, err |-> Err("open")]
    ELSE IF dir.state = "notdir"
    THEN [isEmpty |-> FALSE, err |-> Err("readdir")]
    ELSE [isEmpty |-> dir.entries = {}, err |-> Nil]

\* a variant without the comparison against the cursor
checkLastModTimeNoCursorTest(res, cur, dirCtime) ==
    IF res.err # Nil
    THEN [bi |-> res.bucketIndex, err |-> Wrap("finding newest file", res.err), cursor |-> cur]
    ELSE IF dirCtime = NoStat
    THEN [bi |-> res.bucketIndex, err |-> Err("calling stat"), cursor |-> cur]
    ELSE IF res.modTime < dirCtime
    THEN [bi |-> res.bucketIndex, err |-> Err("no update since the last check"), cursor |-> cur]
    ELSE [bi |-> res.bucketIndex, err |-> Nil, cursor |-> res.modTime]

\* a variant that leaves the cursor alone when it detects an update
checkLastModTimeNoRecord(res, cur, dirCtime) ==
    IF res.err # Nil
    THEN [bi |-> res.bucketIndex, err |-> Wrap("finding newest file", res.err), cursor |-> cur]
    ELSE IF res.modTime < cur \/ res.modTime = cur
    THEN [bi |-> res.bucketIndex, err |-> ErrNoUpdate, cursor |-> cur]
    ELSE IF dirCtime = NoStat
    THEN [bi |-> res.bucketIndex, err |-> Err("calling stat"), cursor |-> cur]
    ELSE IF res.modTime < dirCtime
    THEN [bi |-> res.bucketIndex, err |-> ErrNoUpdate, cursor |-> cur]
    ELSE [bi |-> res.bucketIndex, err |-> Nil, cursor |-> cur]

\* res is what extracter.findNewestFile returned, cursor is
\* lastModTimeByObjectPath[bucketPath], dirCtime the target's change time
checkLastModTime(res, cur, dirCtime) ==
    IF res.err # Nil
    THEN [bi |-> res.bucketIndex, err |-> Wrap("finding newest file", res.err), cursor |-> cur]
    ELSE IF res.modTime < cur \/ res.modTime = cur
    THEN [bi |-> res.bucketIndex, err |-> ErrNoUpdate, cursor |-> cur]
    ELSE IF dirCtime = NoStat
    THEN [bi |-> res.bucketIndex, err |-> Err("calling stat"), cursor |-> cur]
    ELSE IF res.modTime < dirCtime
    THEN [bi |-> res.bucketIndex, err |-> ErrNoUpdate, cursor |-> cur]
    ELSE [bi |-> res.bucketIndex, err |-> Nil, cursor |-> res.modTime]

\* a variant of the decision that installs on a detected update only
InstallDecisionUpdateOnly(empty, chk) ==
    IF chk.err # Nil /\ chk.err # ErrNoUpdate
    THEN [proceed |-> FALSE, attempted |-> FALSE, err |-> chk.err]
    ELSE IF chk.err = Nil
    THEN [proceed |-> TRUE, attempted |-> FALSE, err |-> Nil]
    ELSE [proceed |-> FALSE, attempted |-> FALSE, err |-> Nil]

\* Install, lines 203-224: whether it goes on to extractFiles, and what it
\* returns when it does not
InstallDecision(empty, chk) ==
    IF chk.err # Nil /\ chk.err # ErrNoUpdate
    THEN [proceed |-> FALSE, attempted |-> FALSE, err |-> chk.err]
    ELSE IF chk.err = Nil \/ empty
    THEN [proceed |-> TRUE, attempted |-> FALSE, err |-> Nil]
    ELSE [proceed |-> FALSE, attempted |-> FALSE, err |-> Nil]

(***************************************************************************)
(* installer.go: removeContentsWithPrefix and ExtractTarGz on directories  *)
(* of named entries.  A name is a sequence of one-character strings.       *)
(***************************************************************************)
\* most entries of one archive
MaxEntries == 2

\* strings.HasPrefix, which filepath.HasPrefix is on the systems of stat_bsd.go
HasPrefix(s, prefix) == Len(s) >= Len(prefix) /\ SubSeq(s, 1, Len(prefix)) = prefix

\* the names of the entries of a directory, and the replace-prefixes
EntryNames == {<<"p">>, <<"p", ".", "o">>, <<"a">>}
ReplacePrefixes == {<<>>, <<"p", ".">>, <<"p">>}

\* what a directory holds under a name: nothing, a file that was there before
\* the call, the file written from the k-th entry of the archive, a directory
Absent == [kind |-> "absent", v |-> 0]
OldFile == [kind |-> "reg", v |-> 0]
NewFile(k) == [kind |-> "reg", v |-> k]
DirEntry == [kind |-> "dir", v |-> 0]
EmptyDir == [n \in EntryNames |-> Absent]
Present(dir) == {n \in EntryNames : dir[n] # Absent}

\* the archives: a stream that is not gzip, or up to MaxEntries tar entries
\* followed by the end of the archive or by damaged data
TarEntries == [name : EntryNames, type : {"reg", "dir", "other"}]
Archives ==
    {[damage |-> "gzip", entries |-> <<>>]}
    \cup {[damage |-> d, entries |-> e] : d \in {"none", "tar"}, e \in SeqsUpTo(TarEntries, MaxEntries)}

\* line 43: whether removeContentsWithPrefix removes the entry of this name
Selected(name, prefix) == ~(prefix # <<>> /\ ~HasPrefix(name, prefix))

\* a variant that removes nothing
removeContentsKeepAll(dir, prefix) == dir

\* a variant that removes every entry whatever the prefix
removeContentsAll(dir, prefix) == EmptyDir

\* removeContentsWithPrefix when every os.RemoveAll succeeds
removeContentsWithPrefix(dir, prefix) ==
    [n \in EntryNames |-> IF Selected(n, prefix) THEN Absent ELSE dir[n]]

\* removeContentsWithPrefix when an os.RemoveAll fails: Readdirnames gives the
\* names in no particular order, so any of the selected entries but the
\* failing one may have been removed before it
removeContentsFailing(dir, prefix) ==
    LET sel == {n \in Present(dir) : Selected(n, prefix)}
    IN {[n \in EntryNames |-> IF n \in S THEN Absent ELSE dir[n]] : S \in (SUBSET sel) \ {sel}}

\* lines 88-107: one tar entry, the k-th, into the scratch directory
TarStep(tmp, e, k) ==
    IF e.type = "dir"
    THEN IF tmp[e.name] # Absent
         THEN [tmp |-> tmp, err |-> Err("creating dir")]
         ELSE [tmp |-> [tmp EXCEPT ![e.name] = DirEntry], err |-> Nil]
    ELSE IF e.type = "reg"
    THEN IF tmp[e.name] = DirEntry
         THEN [tmp |-> tmp, err |-> Err("creating file")]
         ELSE [tmp |-> [tmp EXCEPT ![e.name] = NewFile(k)], err |-> Nil]
    ELSE [tmp |-> tmp, err |-> Err("unknown type")]

\* lines 77-108: the loop over the tar entries from the k-th on
RECURSIVE TarLoop(_, _, _)
TarLoop(archive, k, tmp) ==
    IF k > Len(archive.entries)
    THEN [tmp |-> tmp, err |-> IF archive.damage = "tar" THEN Err("reading tar") ELSE Nil]
    ELSE LET st == TarStep(tmp, archive.entries[k], k)
         IN IF st.err # Nil THEN st ELSE TarLoop(archive, k + 1, st.tmp)

\* lines 70-108: gzip.NewReader and the tar loop into an empty scratch directory
DecodeTar(archive) ==
    IF archive.damage = "gzip"
    THEN [tmp |-> EmptyDir, err |-> Err("creating gzip reader")]
    ELSE TarLoop(archive, 1, EmptyDir)

\* cp.Copy: the entries of src that cannot be written over what dst holds
CopyConflicts(src, dst) ==
    {n \in Present(src) : dst[n] # Absent /\ dst[n].kind # src[n].kind}

\* cp.Copy(src, dst) when every entry is written
Copy(src, dst) == [n \in EntryNames |-> IF src[n] # Absent THEN src[n] ELSE dst[n]]

\* cp.Copy(src, dst) when writing an entry fails: the entries before it in the
\* order of the scratch directory are written
CopyFailing(src, dst) ==
    LET can == Present(src) \ CopyConflicts(src, dst)
    IN {[n \in EntryNames |-> IF n \in S THEN src[n] ELSE dst[n]] :
           S \in IF CopyConflicts(src, dst) # {} THEN SUBSET can ELSE (SUBSET can) \ {can}}

(***************************************************************************)
(* cfg: GlobalConfig.Merge.  A map is a function on the names it holds.    *)
(***************************************************************************)
\* the timeout Merge gives a grabber that has none, in seconds
DefaultTimeout == 5

BucketNames == {"lithuania", "latvia"}
GrabberNames == {"alerting_rules", "recording_rules"}
PartialFns(D, V) == UNION {[d -> V] : d \in SUBSET D}

\* the grabbers a configuration file may hold: with or without a shell and a
\* timeout
FileGrabbers == [shell : {"", "/bin/bash"}, timeout : {0, DefaultTimeout + 1}]

\* lines 125-132: what Merge stores for a grabber
WithDefaults(g) ==
    [shell |-> IF g.shell = "" THEN "/bin/sh" ELSE g.shell,
     timeout |-> IF g.timeout = 0 THEN DefaultTimeout ELSE g.timeout]

\* a variant that copies the buckets before it looks at the grabber names
MergeBucketsFirst(gc, other) ==
    IF DOMAIN other.buckets \cap DOMAIN gc.buckets # {}
    THEN [cfg |-> gc, err |-> Err("found duplicated bucket name")]
    ELSE IF DOMAIN other.grabbers \cap DOMAIN gc.grabbers # {}
    THEN [cfg |-> [gc EXCEPT !.buckets = other.buckets @@ gc.buckets],
          err |-> Err("found duplicated grabber name")]
    ELSE [cfg |-> [buckets |-> other.buckets @@ gc.buckets,
                   grabbers |-> [n \in DOMAIN other.grabbers |-> WithDefaults(other.grabbers[n])]
                                @@ gc.grabbers],
          err |-> Nil]

\* GlobalConfig.Merge: the receiver after the call, and the error
Merge(gc, other) ==
    IF DOMAIN other.buckets \cap DOMAIN gc.buckets # {}
    THEN [cfg |-> gc, err |-> Err("found duplicated bucket name")]
    ELSE IF DOMAIN other.grabbers \cap DOMAIN gc.grabbers # {}
    THEN [cfg |-> gc, err |-> Err("found duplicated grabber name")]
    ELSE [cfg |-> [buckets |-> other.buckets @@ gc.buckets,
                   grabbers |-> [n \in DOMAIN other.grabbers |-> WithDefaults(other.grabbers[n])]
                                @@ gc.grabbers],
          err |-> Nil]

(***************************************************************************)
(* State.                                                                  *)
(***************************************************************************)
VARIABLES
    \* configuration (cfg.GlobalConfig and the --interval flag)
    grabbers,       \* the configured grabbers (Sync Units)
    commands,       \* grabber -> its post-install commands
    interval,       \* TRUE: interval mode, FALSE: one-shot mode
    kinds,          \* grabber -> "file" (File is set) or "dir" (only Dir is set)
    dangling,       \* the grabbers that name a bucket absent from config.Buckets
    \* environment
    remote,         \* grabber -> what each of its replicas answers to StatObject
    target,         \* grabber -> the entries of its target directory
    ctime,          \* grabber -> the change time of its target directory
    now,            \* the local clock
    ioFaults,       \* whether a removal or a copy in the local filesystem may fail
    \* installer.Installer
    cursor,         \* grabber -> lastModTimeByObjectPath[bucketPath]
    unit,           \* grabber -> the activation of Install (position, locals, results)
    \* RunS3Grabber and run.Group
    runPc, gctx, globalAttemptedInstall, globalInstallMtx,
    errorsCh,       \* run.Group's errors channel
    collected,      \* the actors whose result Run has received
    firstErr,       \* the first error Run received
    retAttempted, retErr,   \* what RunS3Grabber returned
    \* main's scheduler closure
    schedPc, cycle, lastSyncSucceeded, syncErrorsTotal, lastSuccessfulSyncTimestamp,
    \* history: the targets at the entry of the current RunS3Grabber, and the
    \* units whose Install returned (true, nil) in the previous one
    startTarget, prevOk,
    \* history: the cursors when the previous RunS3Grabber returned, and the
    \* number of the last RunS3Grabber call begun before the latest upload
    prevCursor, uploadCycle,
    \* the resolver and fetcher called on their own
    rsPc, rsMode, rsStats, rsLists, rsRes, rsOut, rsIndex, rsGet,
    \* ExtractTarGz called on its own
    xtPc, xtDir, xtDir0, xtArchive, xtPrefix, xtTmp, xtErr, xtScratch,
    \* the head of Install called on its own: the target and the outcome
    ihPc, ihDir, ihOut,
    \* GlobalConfig.Merge called on its own: receiver, argument, outcome
    mgPc, mgRecv, mgOther, mgOut,
    \* directory mode: the listing GetFiles reads, its position in it, the err
    \* of its goroutine, the channel, what it has sent so far; the position,
    \* the err and the results of directoryExtracter.extractFiles
    dmList, dmPos, dmErr, dmChan, dmClosed, dmSent, dxPc, dxErr, dxRet,
    \* two Installers on one target (xtDir): where each stands, what each
    \* copies, its replace prefix, the modification time of its object
    shPc, shSrc, shPrefix, shMod,
    \* the tar loop of ExtractTarGz on entry names that are paths: where it
    \* stands, the entries, the position, the paths created on the disk
    tpPc, tpEntries, tpPos, tpFs

cfgVars == <<grabbers, commands, interval, kinds, dangling>>
envVars == <<remote, target, ctime, now, ioFaults>>
runVars == <<runPc, gctx, globalAttemptedInstall, globalInstallMtx, errorsCh, collected, firstErr, retAttempted, retErr>>
schedVars == <<schedPc, cycle, lastSyncSucceeded, syncErrorsTotal, lastSuccessfulSyncTimestamp>>
histVars == <<startTarget, prevOk, prevCursor, uploadCycle>>
rsVars == <<rsPc, rsMode, rsStats, rsLists, rsRes, rsOut, rsIndex, rsGet>>
xtVars == <<xtPc, xtDir, xtDir0, xtArchive, xtPrefix, xtTmp, xtErr, xtScratch>>
ihVars == <<ihPc, ihDir, ihOut>>
mgVars == <<mgPc, mgRecv, mgOther, mgOut>>
dmVars == <<dmList, dmPos, dmErr, dmChan, dmClosed, dmSent, dxPc, dxErr, dxRet>>
shVars == <<shPc, shSrc, shPrefix, shMod>>
tpVars == <<tpPc, tpEntries, tpPos, tpFs>>
auxVars == <<ihVars, mgVars, dmVars, shVars, tpVars>>
vars == <<cfgVars, envVars, cursor, unit, runVars, schedVars, histVars, rsVars, xtVars, auxVars>>

(***************************************************************************)
(* More bounds: the grabbers of one-shot mode, the RunS3Grabber calls of   *)
(* interval mode, the last value of the local clock.                       *)
(***************************************************************************)
NumUnits == 2
MaxCycles == 2
MaxClock == 3

Units == 1..NumUnits

\* the clock and the target's change time when the process starts
StartTime == 2

(***************************************************************************)
(* Target directory entries: a file that was there before, the content of  *)
(* the object of modification time t fetched from replica i, a file        *)
(* written by a post-install command.                                      *)
(***************************************************************************)
PreEntry == <<"pre", 0, 0>>
ObjEntry(i, t) == <<"obj", i, t>>
CmdEntry == <<"cmd", 0, 0>>

\* the post-install commands a grabber may configure: "touch" writes a file
\* into the target directory (as the repository's test does), "run" does not
CommandLists == {<<>>, <<"touch">>, <<"run", "touch">>}

(***************************************************************************)
(* installer.go: one activation of Installer.Install.                      *)
(***************************************************************************)
FreshUnit == [pc |-> "install", isEmpty |-> FALSE, found |-> FALSE, noUpdate |-> FALSE,
              bucketIndex |-> 0, modTime |-> 0, scratch |-> {}, cmdIdx |-> 0,
              timedOut |-> FALSE, read |-> FALSE, attempted |-> FALSE, err |-> Nil]
NoUnit == [FreshUnit EXCEPT !.pc = "none"]

\* g.Run has started the actors and has not yet received every result
Waiting == runPc \in {"running", "wait"}

InInstall(u) == unit[u].pc \in {"install", "fetch", "clear", "copy", "cmd"}

\* ctx of the actor: context.WithTimeout(gctx, i.GetTimeout())
ctxDone(u) == gctx = "canceled" \/ unit[u].timedOut

\* Install returns (attempted, err): the actor goes on to the mutex
Returns(u, attempted, err) ==
    [unit EXCEPT ![u].pc = "lock", ![u].attempted = attempted, ![u].err = err]


\* what the replicas answer under ctx: a done context fails every request
Answers(u) ==
    IF ctxDone(u) THEN [i \in 1..Len(remote[u]) |-> Failure] ELSE remote[u]

\* Install, lines 203-224: IsEmptyDir, checkLastModTime, the decision
UnitCheck(u) ==
    /\ Waiting /\ unit[u].pc = "install"
    /\ LET empty == IsEmptyDir(Directory(target[u])).isEmpty
           res == FindNewestFile(Answers(u))
           chk == checkLastModTime(res, cursor[u], ctime[u])
           dec == InstallDecision(empty, chk)
           seen == [unit EXCEPT ![u].isEmpty = empty, ![u].found = (res.err = Nil),
                                ![u].noUpdate = (chk.err = ErrNoUpdate),
                                ![u].bucketIndex = chk.bi, ![u].modTime = res.modTime]
       IN /\ cursor' = [cursor EXCEPT ![u] = chk.cursor]
          /\ unit' = IF dec.proceed
                     THEN [seen EXCEPT ![u].pc = "fetch"]
                     ELSE [seen EXCEPT ![u].pc = "lock", ![u].attempted = dec.attempted, ![u].err = dec.err]
    /\ UNCHANGED <<cfgVars, envVars, runVars, schedVars, histVars, rsVars, xtVars, auxVars>>

\* archiveExtracter.extractFiles: GetFile, then ExtractTarGz up to the end of
\* the tar loop (the archive decoded into the scratch directory).  StatObject
\* accepted the same bucket and key, so GetObject's argument checks pass.
UnitFetch(u) ==
    /\ Waiting /\ unit[u].pc = "fetch"
    /\ LET g == GetFile(Len(remote[u]), unit[u].bucketIndex, TRUE)
       IN IF g.err # Nil \/ g.panic
          THEN unit' = Returns(u, FALSE, Wrap("extracting files", g.err))
          ELSE \E ok \in BOOLEAN :
                 IF ctxDone(u) \/ ~ok
                 THEN unit' = Returns(u, TRUE, Wrap("extracting files", Err("reading tar")))
                 ELSE unit' = [unit EXCEPT ![u].pc = "clear",
                                 ![u].scratch = {ObjEntry(g.rc.from, remote[u][g.rc.from + 1].t)}]
    /\ UNCHANGED <<cfgVars, envVars, cursor, runVars, schedVars, histVars, rsVars, xtVars, auxVars>>

\* whether a removal or a copy succeeds
Outcomes == IF ioFaults THEN BOOLEAN ELSE {TRUE}

\* ExtractTarGz, line 113: removeContentsWithPrefix(dir, "")
UnitClear(u) ==
    /\ Waiting /\ unit[u].pc = "clear"
    /\ \E ok \in Outcomes :
         IF ok
         THEN /\ target' = [target EXCEPT ![u] = {}]
              /\ ctime' = [ctime EXCEPT ![u] = IF target[u] = {} THEN @ ELSE now]
              /\ unit' = [unit EXCEPT ![u].pc = "copy"]
         ELSE /\ unit' = Returns(u, TRUE, Wrap("extracting files", Err("clearing")))
              /\ UNCHANGED <<target, ctime>>
    /\ UNCHANGED <<cfgVars, remote, now, ioFaults, cursor, runVars, schedVars, histVars, rsVars, xtVars, auxVars>>

\* where Install stands once the commands before index k have run
AfterCommands(u, k) ==
    IF k = Len(commands[u])
    THEN [unit EXCEPT ![u].pc = "lock", ![u].attempted = TRUE, ![u].err = Nil, ![u].cmdIdx = k]
    ELSE [unit EXCEPT ![u].pc = "cmd", ![u].cmdIdx = k]

\* a variant of the copy step that goes on to the commands when cp.Copy fails
UnitCopyIgnoresFailure(u) ==
    /\ Waiting /\ unit[u].pc = "copy"
    /\ \E ok \in Outcomes :
         IF ok
         THEN /\ target' = [target EXCEPT ![u] = @ \cup unit[u].scratch]
              /\ ctime' = [ctime EXCEPT ![u] = now]
              /\ unit' = AfterCommands(u, 0)
         ELSE /\ unit' = AfterCommands(u, 0)
              /\ UNCHANGED <<target, ctime>>
    /\ UNCHANGED <<cfgVars, remote, now, ioFaults, cursor, runVars, schedVars, histVars, rsVars, xtVars, auxVars>>

\* ExtractTarGz, lines 117-123: cp.Copy(tmpDir, dir)
UnitCopy(u) ==
    /\ Waiting /\ unit[u].pc = "copy"
    /\ \E ok \in Outcomes :
         IF ok
         THEN /\ target' = [target EXCEPT ![u] = @ \cup unit[u].scratch]
              /\ ctime' = [ctime EXCEPT ![u] = now]
              /\ unit' = AfterCommands(u, 0)
         ELSE /\ unit' = Returns(u, TRUE, Wrap("extracting files", Err("copying")))
              /\ UNCHANGED <<target, ctime>>
    /\ UNCHANGED <<cfgVars, remote, now, ioFaults, cursor, runVars, schedVars, histVars, rsVars, xtVars, auxVars>>

\* Install, lines 232-243: the next command under exec.CommandContext(ctx, ...)
UnitCommand(u) ==
    /\ Waiting /\ unit[u].pc = "cmd"
    /\ LET k == unit[u].cmdIdx + 1
       IN \E ok \in BOOLEAN :
            IF ctxDone(u) \/ ~ok
            THEN /\ unit' = Returns(u, TRUE, Err("executing"))
                 /\ UNCHANGED <<target, ctime>>
            ELSE /\ unit' = AfterCommands(u, k)
                 /\ IF commands[u][k] = "touch"
                    THEN /\ target' = [target EXCEPT ![u] = @ \cup {CmdEntry}]
                         /\ ctime' = [ctime EXCEPT ![u] = now]
                    ELSE UNCHANGED <<target, ctime>>
    /\ UNCHANGED <<cfgVars, remote, now, ioFaults, cursor, runVars, schedVars, histVars, rsVars, xtVars, auxVars>>

\* the deadline of the actor's context passes while Install runs
UnitTimeout(u) ==
    /\ Waiting /\ InInstall(u) /\ ~unit[u].timedOut
    /\ unit' = [unit EXCEPT ![u].timedOut = TRUE]
    /\ UNCHANGED <<cfgVars, envVars, cursor, runVars, schedVars, histVars, rsVars, xtVars, auxVars>>

(***************************************************************************)
(* main.go: the actor around Install, lines 57-63.                         *)
(***************************************************************************)
\* a variant of Lock that never waits
CanLockAlways(mtx) == TRUE

\* sync.Mutex: Lock returns only when the mutex is free
CanLock(mtx) == mtx = 0

\* globalInstallMtx.Lock() and the read of globalAttemptedInstall
UnitLock(u) ==
    /\ Waiting /\ unit[u].pc = "lock"
    /\ CanLock(globalInstallMtx)
    /\ globalInstallMtx' = u
    /\ unit' = [unit EXCEPT ![u].pc = "store", ![u].read = globalAttemptedInstall]
    /\ UNCHANGED <<cfgVars, envVars, cursor, runPc, gctx, globalAttemptedInstall, errorsCh,
                   collected, firstErr, retAttempted, retErr, schedVars, histVars, rsVars, xtVars, auxVars>>

\* the write of globalAttemptedInstall, Unlock, return err; run.Group sends
\* the returned error on its errors channel
UnitStore(u) ==
    /\ Waiting /\ unit[u].pc = "store"
    /\ globalAttemptedInstall' = (unit[u].read \/ unit[u].attempted)
    /\ globalInstallMtx' = IF globalInstallMtx = u THEN 0 ELSE globalInstallMtx
    /\ errorsCh' = Append(errorsCh, [from |-> u, err |-> unit[u].err])
    /\ unit' = [unit EXCEPT ![u].pc = "done"]
    /\ UNCHANGED <<cfgVars, envVars, cursor, runPc, gctx, collected, firstErr,
                   retAttempted, retErr, schedVars, histVars, rsVars, xtVars, auxVars>>

(***************************************************************************)
(* main.go, lines 47-75: run.Group.Run as RunS3Grabber calls it.  Run      *)
(* starts every actor, waits for the first to return, calls every actor's  *)
(* interrupt function with that first error, waits for the others and      *)
(* returns the first error.                                                *)
(***************************************************************************)
\* the interrupt function of an actor, lines 64-68: if e != nil { cancel() }
interrupt(e, ctx) == IF e # Nil THEN "canceled" ELSE ctx

\* a variant of Run that returns with the first result
AllReturnedAfterFirst(got) == got # {}

\* whether Run has every result it waits for before it returns
AllReturned(got) == got = {u \in grabbers : unit[u].pc # "none"}

\* lines 71-75: what RunS3Grabber returns for the error g.Run returned
RunResult(e) == IF e # Nil THEN Wrap("failed running grabbers", e) ELSE Nil

\* err := <-errors, then a.interrupt(err) for every actor
RunFirst ==
    /\ runPc = "running" /\ collected = {} /\ errorsCh # <<>>
    /\ firstErr' = Head(errorsCh).err
    /\ collected' = {Head(errorsCh).from}
    /\ errorsCh' = Tail(errorsCh)
    /\ gctx' = interrupt(Head(errorsCh).err, gctx)
    /\ runPc' = IF AllReturned({Head(errorsCh).from}) THEN "return" ELSE "wait"
    /\ UNCHANGED <<cfgVars, envVars, cursor, unit, globalAttemptedInstall, globalInstallMtx,
                   retAttempted, retErr, schedVars, histVars, rsVars, xtVars, auxVars>>

\* for i := 1; i < cap(errors); i++ { <-errors }
RunRest ==
    /\ runPc = "wait" /\ errorsCh # <<>>
    /\ collected' = collected \cup {Head(errorsCh).from}
    /\ errorsCh' = Tail(errorsCh)
    /\ runPc' = IF AllReturned(collected \cup {Head(errorsCh).from}) THEN "return" ELSE "wait"
    /\ UNCHANGED <<cfgVars, envVars, cursor, unit, gctx, globalAttemptedInstall, globalInstallMtx,
                   firstErr, retAttempted, retErr, schedVars, histVars, rsVars, xtVars, auxVars>>

\* RunS3Grabber returns; the deferred cancel() runs
RunReturn ==
    /\ runPc = "return"
    /\ retAttempted' = globalAttemptedInstall
    /\ retErr' = RunResult(firstErr)
    /\ gctx' = "canceled"
    /\ runPc' = "returned"
    /\ UNCHANGED <<cfgVars, envVars, cursor, unit, globalAttemptedInstall, globalInstallMtx,
                   errorsCh, collected, firstErr, schedVars, histVars, rsVars, xtVars, auxVars>>

(***************************************************************************)
(* s3grabber.go, lines 100-137: the scheduler closure of main.             *)
(***************************************************************************)
\* the call of RunS3Grabber, with lines 22-49 of main.go: a new Installer
\* (and so a new lastModTimeByObjectPath) for every grabber, a new gctx
\* the orders in which the loop of line 27 may visit config.Grabbers (a map)
GrabberOrders ==
    {o \in [1..Cardinality(grabbers) -> grabbers] :
        \A i \in DOMAIN o, j \in DOMAIN o : o[i] = o[j] => i = j}

\* what a grabber of the configuration names: an archive key (file), a
\* prefix (dir), both, or neither
GrabberKinds == {"file", "dir", "both", "neither"}

\* grabber.File != nil, grabber.Dir != nil
HasFile(kind) == kind \in {"file", "both"}
HasDir(kind) == kind \in {"dir", "both"}

\* cfg: GlobalConfig.Validate, the grabbers it reports
Validate(ks) ==
    IF \E u \in DOMAIN ks : ~HasFile(ks[u]) /\ ~HasDir(ks[u])
    THEN Err("either file or dir should be specified")
    ELSE Nil

\* cfg: ReadConfig: a directory goes through readFromPath, which calls
\* Validate; a single file is parsed and returned
ReadConfig(isDir, ks) ==
    IF isDir /\ Validate(ks) # Nil THEN Err("invalid config provided") ELSE Nil

\* a variant of the loop that passes over a grabber with a missing bucket
RECURSIVE BuildInstallersSkipDangling(_, _, _)
BuildInstallersSkipDangling(order, k, built) ==
    IF k > Len(order)
    THEN [installers |-> built, err |-> Nil]
    ELSE IF order[k] \in dangling
    THEN BuildInstallersSkipDangling(order, k + 1, built)
    ELSE BuildInstallersSkipDangling(order, k + 1,
             IF HasFile(kinds[order[k]]) THEN built \cup {order[k]} ELSE built)

\* main.go, lines 26-45: the installers RunS3Grabber builds, from the k-th
\* grabber of the order on; it returns at a bucket name it cannot find, and it
\* appends an installer only when grabber.File is set
RECURSIVE BuildInstallers(_, _, _)
BuildInstallers(order, k, built) ==
    IF k > Len(order)
    THEN [installers |-> built, err |-> Nil]
    ELSE IF order[k] \in dangling
    THEN [installers |-> {}, err |-> Err("failed to find bucket")]
    ELSE BuildInstallers(order, k + 1,
             IF HasFile(kinds[order[k]]) THEN built \cup {order[k]} ELSE built)

\* s3grabber.go, lines 78-82: main reads the configuration from a file or
\* from a directory and exits with status 1 on an error
ReadConfigCall ==
    /\ schedPc = "start"
    /\ \E isDir \in BOOLEAN :
         schedPc' = IF ReadConfig(isDir, [u \in grabbers |-> kinds[u]]) # Nil THEN "exit1" ELSE "call"
    /\ UNCHANGED <<cfgVars, envVars, cursor, unit, runVars, cycle, lastSyncSucceeded, syncErrorsTotal,
                   lastSuccessfulSyncTimestamp, histVars, rsVars, xtVars, auxVars>>

SchedCall ==
    /\ schedPc = "call" /\ cycle < MaxCycles
    /\ cycle' = cycle + 1
    /\ schedPc' = "running"
    /\ cursor' = [u \in Units |-> 0]
    /\ \E order \in GrabberOrders :
         LET b == BuildInstallers(order, 1, {})
         IN /\ unit' = [u \in Units |-> IF u \in b.installers THEN FreshUnit ELSE NoUnit]
            /\ IF b.err # Nil
               THEN /\ runPc' = "returned"
                    /\ retAttempted' = FALSE
                    /\ retErr' = b.err
                    /\ UNCHANGED gctx
               ELSE /\ runPc' = IF b.installers = {} THEN "return" ELSE "running"
                    /\ gctx' = "active"
                    /\ UNCHANGED <<retAttempted, retErr>>
    /\ globalAttemptedInstall' = FALSE
    /\ globalInstallMtx' = 0
    /\ errorsCh' = <<>>
    /\ collected' = {}
    /\ firstErr' = Nil
    /\ startTarget' = target
    /\ prevOk' = {u \in grabbers : unit[u].pc = "done" /\ unit[u].attempted /\ unit[u].err = Nil}
    /\ prevCursor' = cursor
    /\ UNCHANGED uploadCycle
    /\ UNCHANGED <<cfgVars, envVars, lastSyncSucceeded, syncErrorsTotal,
                   lastSuccessfulSyncTimestamp, rsVars, xtVars, auxVars>>

\* a variant of the scheduler that gives up after a failed cycle
SchedHandleStopsOnError ==
    /\ schedPc = "running" /\ runPc = "returned"
    /\ IF interval
       THEN /\ schedPc' = IF retErr # Nil THEN "exit1" ELSE "call"
            /\ lastSyncSucceeded' = IF retAttempted THEN (retErr = Nil) ELSE lastSyncSucceeded
            /\ syncErrorsTotal' = IF retErr # Nil THEN syncErrorsTotal + 1 ELSE syncErrorsTotal
            /\ lastSuccessfulSyncTimestamp' =
                 IF retErr = Nil /\ (retAttempted \/ lastSyncSucceeded) THEN now
                 ELSE lastSuccessfulSyncTimestamp
       ELSE /\ schedPc' = IF retErr # Nil THEN "exit1" ELSE "exit0"
            /\ lastSuccessfulSyncTimestamp' = IF retErr = Nil THEN now ELSE lastSuccessfulSyncTimestamp
            /\ UNCHANGED <<lastSyncSucceeded, syncErrorsTotal>>
    /\ UNCHANGED <<cfgVars, envVars, cursor, unit, runVars, cycle, histVars, rsVars, xtVars, auxVars>>

\* a variant of the scheduler that sets the gauge after every cycle without
\* an error
SchedHandleGaugeOnNoError ==
    /\ schedPc = "running" /\ runPc = "returned"
    /\ IF interval
       THEN /\ schedPc' = "call"
            /\ lastSyncSucceeded' = IF retAttempted THEN (retErr = Nil) ELSE lastSyncSucceeded
            /\ syncErrorsTotal' = IF retErr # Nil THEN syncErrorsTotal + 1 ELSE syncErrorsTotal
            /\ lastSuccessfulSyncTimestamp' =
                 IF retErr = Nil THEN now ELSE lastSuccessfulSyncTimestamp
       ELSE /\ schedPc' = IF retErr # Nil THEN "exit1" ELSE "exit0"
            /\ lastSuccessfulSyncTimestamp' = IF retErr = Nil THEN now ELSE lastSuccessfulSyncTimestamp
            /\ UNCHANGED <<lastSyncSucceeded, syncErrorsTotal>>
    /\ UNCHANGED <<cfgVars, envVars, cursor, unit, runVars, cycle, histVars, rsVars, xtVars, auxVars>>

\* lines 112-128 (interval mode, up to the wait on the ticker) and lines
\* 131-137 (one-shot mode)
SchedHandle ==
    /\ schedPc = "running" /\ runPc = "returned"
    /\ IF interval
       THEN /\ schedPc' = "call"
            /\ lastSyncSucceeded' = IF retAttempted THEN (retErr = Nil) ELSE lastSyncSucceeded
            /\ syncErrorsTotal' = IF retErr # Nil THEN syncErrorsTotal + 1 ELSE syncErrorsTotal
            /\ lastSuccessfulSyncTimestamp' =
                 IF retErr = Nil /\ (retAttempted \/ lastSyncSucceeded) THEN now
                 ELSE lastSuccessfulSyncTimestamp
       ELSE /\ schedPc' = IF retErr # Nil THEN "exit1" ELSE "exit0"
            /\ lastSuccessfulSyncTimestamp' = IF retErr = Nil THEN now ELSE lastSuccessfulSyncTimestamp
            /\ UNCHANGED <<lastSyncSucceeded, syncErrorsTotal>>
    /\ UNCHANGED <<cfgVars, envVars, cursor, unit, runVars, cycle, histVars, rsVars, xtVars, auxVars>>

\* the local clock advances
Tick ==
    /\ now < MaxClock
    /\ now' = now + 1
    /\ UNCHANGED <<cfgVars, remote, target, ctime, ioFaults, cursor, unit, runVars, schedVars, histVars, rsVars, xtVars, auxVars>>

\* a writer puts a new version of the object on a replica: its LastModified
\* is the current time, later than that of every version the replicas hold
Upload(u) ==
    /\ now <= MaxTime
    /\ \A j \in 1..Len(remote[u]) : remote[u][j].k = "obj" => remote[u][j].t < now
    /\ \E i \in 1..Len(remote[u]) : remote' = [remote EXCEPT ![u][i] = Obj(now)]
    /\ uploadCycle' = cycle
    /\ UNCHANGED <<cfgVars, target, ctime, now, ioFaults, cursor, unit, runVars, schedVars,
                   startTarget, prevOk, prevCursor, rsVars, xtVars, auxVars>>

(***************************************************************************)
(* The resolver and the fetcher called on their own, on every bounded      *)
(* replica list, with the decision Install takes on the resolver's result. *)
(***************************************************************************)
\* largest LastModified in a prefix listing
MaxListTime == 2
PrefixItems == {NotFound, Failure} \cup {Obj(t) : t \in 0..MaxListTime}

NoResult == [modTime |-> 0, bucketIndex |-> 0, err |-> Nil]
NoOutcome == [proceed |-> FALSE, attempted |-> FALSE, err |-> Nil, chkErr |-> Nil, bi |-> 0]
NoGet == [rc |-> NoStream, err |-> Nil, contacted |-> {}, panic |-> FALSE]

\* len(m.clients)
rsClients == IF rsMode = "file" THEN Len(rsStats) ELSE Len(rsLists)

\* archiveExtracter.findNewestFile
ResolveFile ==
    /\ rsPc = "input" /\ rsMode = "file"
    /\ rsRes' = FindNewestFile(rsStats)
    /\ rsPc' = "resolved"
    /\ UNCHANGED <<cfgVars, envVars, cursor, unit, runVars, schedVars, histVars, xtVars, auxVars,
                   rsMode, rsStats, rsLists, rsOut, rsIndex, rsGet>>

\* directoryExtracter.findNewestFile
ResolvePrefix ==
    /\ rsPc = "input" /\ rsMode = "prefix"
    /\ rsRes' = FindNewestInPrefix(rsLists)
    /\ rsPc' = "resolved"
    /\ UNCHANGED <<cfgVars, envVars, cursor, unit, runVars, schedVars, histVars, xtVars, auxVars,
                   rsMode, rsStats, rsLists, rsOut, rsIndex, rsGet>>

\* Install, lines 203-224, on the resolver's result: any emptiness of the
\* target, any cursor, any change time
ResolveDecide ==
    /\ rsPc = "resolved"
    /\ \E empty \in BOOLEAN, cur \in 0..MaxTime, ct \in 0..MaxClock :
         LET chk == checkLastModTime(rsRes, cur, ct)
             dec == InstallDecision(empty, chk)
         IN rsOut' = [proceed |-> dec.proceed, attempted |-> dec.attempted, err |-> dec.err,
                      chkErr |-> chk.err, bi |-> chk.bi]
    /\ rsPc' = "decided"
    /\ UNCHANGED <<cfgVars, envVars, cursor, unit, runVars, schedVars, histVars, xtVars, auxVars,
                   rsMode, rsStats, rsLists, rsRes, rsIndex, rsGet>>

\* GetFile with any index
CallGetFile ==
    /\ rsPc = "input" /\ rsMode = "file"
    /\ \E idx \in -1..(rsClients + 1), getOk \in BOOLEAN :
         /\ rsIndex' = idx
         /\ rsGet' = GetFile(rsClients, idx, getOk)
    /\ rsPc' = "got"
    /\ UNCHANGED <<cfgVars, envVars, cursor, unit, runVars, schedVars, histVars, xtVars, auxVars,
                   rsMode, rsStats, rsLists, rsRes, rsOut>>

\* GetFiles with any index
CallGetFiles ==
    /\ rsPc = "input" /\ rsMode = "prefix"
    /\ \E idx \in -1..(rsClients + 1) :
         /\ rsIndex' = idx
         /\ rsGet' = GetFiles(rsClients, idx)
    /\ rsPc' = "got"
    /\ UNCHANGED <<cfgVars, envVars, cursor, unit, runVars, schedVars, histVars, xtVars, auxVars,
                   rsMode, rsStats, rsLists, rsRes, rsOut>>

(***************************************************************************)
(* installer.go, lines 59-124: ExtractTarGz called on its own, on every    *)
(* bounded target directory, archive and replace-prefix.                   *)
(***************************************************************************)
\* a variant of the deferred function that removes nothing
DeferredRemoveAllSkipped(tmp) ==
    /\ xtScratch' = xtScratch
    /\ xtTmp' = tmp

\* the deferred os.RemoveAll(tmpDir) of ExtractTarGz (lines 65-69) and of
\* directoryExtracter.extractFiles (lines 338-342): it removes the scratch
\* directory or fails and leaves it; its error is logged
DeferredRemoveAll(tmp) ==
    \E removed \in BOOLEAN :
      /\ xtScratch' = IF removed THEN "removed" ELSE "left"
      /\ xtTmp' = IF removed THEN EmptyDir ELSE tmp

\* where ExtractTarGz stands once it has returned
ExtractReturned(err) == IF err = Nil THEN "done" ELSE "failed"

\* a variant that decodes the archive into the target itself
XtDecodeInPlace ==
    /\ xtPc = "input"
    /\ \E mkOk \in BOOLEAN :
         LET dec == DecodeTar(xtArchive)
         IN IF ~mkOk
            THEN /\ xtPc' = "failed" /\ xtErr' = Err("creating temp dir")
                 /\ UNCHANGED <<xtTmp, xtScratch, xtDir>>
            ELSE IF dec.err # Nil
            THEN /\ xtPc' = "cleanup" /\ xtErr' = dec.err /\ xtTmp' = dec.tmp /\ xtScratch' = "made"
                 /\ xtDir' = Copy(dec.tmp, xtDir)
            ELSE /\ xtPc' = "clear" /\ xtErr' = Nil /\ xtTmp' = dec.tmp /\ xtScratch' = "made"
                 /\ UNCHANGED xtDir
    /\ UNCHANGED <<cfgVars, envVars, cursor, unit, runVars, schedVars, histVars, rsVars, auxVars,
                   xtDir0, xtArchive, xtPrefix>>

\* lines 60-108: os.MkdirTemp, gzip.NewReader, the tar loop; a return after
\* os.MkdirTemp leaves the deferred function to run
XtDecode ==
    /\ xtPc = "input"
    /\ \E mkOk \in BOOLEAN :
         LET dec == DecodeTar(xtArchive)
         IN IF ~mkOk
            THEN /\ xtPc' = "failed" /\ xtErr' = Err("creating temp dir")
                 /\ UNCHANGED <<xtTmp, xtScratch>>
            ELSE IF dec.err # Nil
            THEN xtPc' = "cleanup" /\ xtErr' = dec.err /\ xtTmp' = dec.tmp /\ xtScratch' = "made"
            ELSE xtPc' = "clear" /\ xtErr' = Nil /\ xtTmp' = dec.tmp /\ xtScratch' = "made"
    /\ UNCHANGED <<cfgVars, envVars, cursor, unit, runVars, schedVars, histVars, rsVars, auxVars,
                   xtDir, xtDir0, xtArchive, xtPrefix>>

\* lines 113-115: removeContentsWithPrefix(dir, replacePrefix)
XtClear ==
    /\ xtPc = "clear"
    /\ \/ /\ xtDir' = removeContentsWithPrefix(xtDir, xtPrefix)
          /\ xtPc' = "copy"
          /\ UNCHANGED xtErr
       \/ /\ xtDir' \in removeContentsFailing(xtDir, xtPrefix)
          /\ xtPc' = "cleanup" /\ xtErr' = Err("clearing")
    /\ UNCHANGED <<cfgVars, envVars, cursor, unit, runVars, schedVars, histVars, rsVars, auxVars,
                   xtDir0, xtArchive, xtPrefix, xtTmp, xtScratch>>

\* lines 117-123: cp.Copy(tmpDir, dir), then return nil
XtCopy ==
    /\ xtPc = "copy"
    /\ \/ /\ CopyConflicts(xtTmp, xtDir) = {}
          /\ xtDir' = Copy(xtTmp, xtDir)
          /\ xtErr' = Nil
       \/ /\ xtDir' \in CopyFailing(xtTmp, xtDir)
          /\ xtErr' = Err("copying")
    /\ xtPc' = "cleanup"
    /\ UNCHANGED <<cfgVars, envVars, cursor, unit, runVars, schedVars, histVars, rsVars, auxVars,
                   xtDir0, xtArchive, xtPrefix, xtTmp, xtScratch>>

\* lines 65-69: the deferred function runs as ExtractTarGz returns
XtCleanup ==
    /\ xtPc = "cleanup"
    /\ DeferredRemoveAll(xtTmp)
    /\ xtPc' = ExtractReturned(xtErr)
    /\ UNCHANGED <<cfgVars, envVars, cursor, unit, runVars, schedVars, histVars, rsVars, auxVars,
                   xtDir, xtDir0, xtArchive, xtPrefix, xtErr>>

(***************************************************************************)
(* Directory mode: the goroutine of GetFiles (downloader.go, lines 58-103) *)
(* and directoryExtracter.extractFiles (installer.go, lines 327-387),      *)
(* which receives from its channel.  The target, the scratch directory and *)
(* the replace prefix are xtDir, xtTmp and xtPrefix.                       *)
(***************************************************************************)
\* longest listing of the prefix
MaxListing == 2

\* what ListObjects yields: a listing error, the key of the prefix itself, a
\* key under the prefix, or a key that lacks the prefix; getOk tells whether
\* GetObject succeeds on the key
ListingItems ==
    {[kind |-> "listErr", key |-> <<>>, getOk |-> TRUE],
     [kind |-> "dir", key |-> <<>>, getOk |-> TRUE]}
    \cup [kind : {"obj"}, key : {<<"p">>, <<"a">>}, getOk : BOOLEAN]
    \cup [kind : {"foreign"}, key : {<<"a">>}, getOk : BOOLEAN]

\* BucketFile; content is the position in the listing of the object read
BucketFile(key, content, err) == [key |-> key, content |-> content, err |-> err]

\* line 52: make(chan BucketFile, 1)
ChanCap == 1

\* what one iteration of the loop of lines 62-102 sends, if anything, and the
\* err of line 60 after it; the err of line 79 is another variable
GetFilesItem(item, pos, err) ==
    IF err # Nil THEN [send |-> <<>>, err |-> err]
    ELSE IF item.kind = "listErr"
    THEN [send |-> <<BucketFile(<<>>, 0, Err("listing objects"))>>, err |-> Err("listing objects")]
    ELSE IF item.kind = "dir" THEN [send |-> <<>>, err |-> err]
    ELSE IF ~item.getOk
    THEN [send |-> <<BucketFile(<<>>, 0, Err("getting object"))>>, err |-> err]
    ELSE IF item.kind = "foreign"
    THEN [send |-> <<BucketFile(<<>>, 0, Err("key does not have expected prefix"))>>, err |-> err]
    ELSE [send |-> <<BucketFile(item.key, pos, Nil)>>, err |-> err]

\* lines 62-102: one iteration; a send waits for room in the channel
GetFilesStep ==
    /\ dxPc # "idle" /\ ~dmClosed /\ dmPos < Len(dmList)
    /\ LET it == GetFilesItem(dmList[dmPos + 1], dmPos + 1, dmErr)
       IN /\ Len(dmChan) + Len(it.send) <= ChanCap
          /\ dmChan' = dmChan \o it.send
          /\ dmSent' = dmSent \o it.send
          /\ dmErr' = it.err
    /\ dmPos' = dmPos + 1
    /\ UNCHANGED <<cfgVars, envVars, cursor, unit, runVars, schedVars, histVars, rsVars, xtVars,
                   ihVars, mgVars, shVars, tpVars, dmList, dmClosed, dxPc, dxErr, dxRet>>

\* line 59: the deferred close(bucketObjects) at the end of the listing
GetFilesClose ==
    /\ dxPc # "idle" /\ ~dmClosed /\ dmPos = Len(dmList)
    /\ dmClosed' = TRUE
    /\ UNCHANGED <<cfgVars, envVars, cursor, unit, runVars, schedVars, histVars, rsVars, xtVars,
                   ihVars, mgVars, shVars, tpVars, dmList, dmPos, dmErr, dmChan, dmSent, dxPc, dxErr, dxRet>>

\* installer.go, lines 333-336: os.MkdirTemp
DxMkdirTemp ==
    /\ dxPc = "start"
    /\ \/ dxPc' = "recv" /\ xtScratch' = "made" /\ UNCHANGED dxRet
       \/ /\ dxPc' = "returned" /\ dxRet' = [attempted |-> FALSE, err |-> Err("creating temp dir")]
          /\ UNCHANGED xtScratch
    /\ UNCHANGED <<cfgVars, envVars, cursor, unit, runVars, schedVars, histVars, rsVars,
                   ihVars, mgVars, shVars, tpVars, xtPc, xtDir, xtDir0, xtArchive, xtPrefix, xtTmp, xtErr,
                   dmList, dmPos, dmErr, dmChan, dmClosed, dmSent, dxErr>>

\* lines 345-366: the function called on each BucketFile; its result is
\* assigned to the err of extractFiles
SaveObject(f, err, tmp) ==
    IF err # Nil \/ f.err # Nil
    THEN {[err |-> err, tmp |-> tmp]}
    ELSE {[err |-> Nil, tmp |-> [tmp EXCEPT ![f.key] = NewFile(f.content)]],
          [err |-> Err("creating temp file"), tmp |-> tmp],
          [err |-> Err("copying object content"), tmp |-> [tmp EXCEPT ![f.key] = NewFile(0)]]}

\* lines 344-367: one iteration of the loop over the channel
DxReceive ==
    /\ dxPc = "recv" /\ dmChan # <<>>
    /\ \E r \in SaveObject(Head(dmChan), dxErr, xtTmp) :
         /\ dxErr' = r.err
         /\ xtTmp' = r.tmp
    /\ dmChan' = Tail(dmChan)
    /\ UNCHANGED <<cfgVars, envVars, cursor, unit, runVars, schedVars, histVars, rsVars,
                   ihVars, mgVars, shVars, tpVars, xtPc, xtDir, xtDir0, xtArchive, xtPrefix, xtErr, xtScratch,
                   dmList, dmPos, dmErr, dmClosed, dmSent, dxPc, dxRet>>

\* lines 368-370: the channel is closed and empty; the err of the last call
DxLoopEnd ==
    /\ dxPc = "recv" /\ dmChan = <<>> /\ dmClosed
    /\ IF dxErr # Nil
       THEN /\ dxPc' = "cleanup"
            /\ dxRet' = [attempted |-> FALSE, err |-> Err("saving remote objects")]
       ELSE /\ dxPc' = "clear"
            /\ UNCHANGED dxRet
    /\ UNCHANGED <<cfgVars, envVars, cursor, unit, runVars, schedVars, histVars, rsVars,
                   ihVars, mgVars, shVars, tpVars, xtVars,
                   dmList, dmPos, dmErr, dmChan, dmClosed, dmSent, dxErr>>

\* a variant of the clear step that reports a failed removal as not attempted
DxClearNotAttempted ==
    /\ dxPc = "clear"
    /\ \/ /\ xtDir' = removeContentsWithPrefix(xtDir, xtPrefix)
          /\ dxPc' = "copy"
          /\ UNCHANGED dxRet
       \/ /\ xtDir' \in removeContentsFailing(xtDir, xtPrefix)
          /\ dxPc' = "cleanup"
          /\ dxRet' = [attempted |-> FALSE, err |-> Err("clearing")]
    /\ UNCHANGED <<cfgVars, envVars, cursor, unit, runVars, schedVars, histVars, rsVars,
                   ihVars, mgVars, shVars, tpVars, xtPc, xtDir0, xtArchive, xtPrefix, xtErr, xtTmp, xtScratch,
                   dmList, dmPos, dmErr, dmChan, dmClosed, dmSent, dxErr>>

\* lines 375-377: removeContentsWithPrefix(e.installInto, e.replacePrefix)
DxClear ==
    /\ dxPc = "clear"
    /\ \/ /\ xtDir' = removeContentsWithPrefix(xtDir, xtPrefix)
          /\ dxPc' = "copy"
          /\ UNCHANGED dxRet
       \/ /\ xtDir' \in removeContentsFailing(xtDir, xtPrefix)
          /\ dxPc' = "cleanup"
          /\ dxRet' = [attempted |-> TRUE, err |-> Err("clearing")]
    /\ UNCHANGED <<cfgVars, envVars, cursor, unit, runVars, schedVars, histVars, rsVars,
                   ihVars, mgVars, shVars, tpVars, xtPc, xtDir0, xtArchive, xtPrefix, xtErr, xtTmp, xtScratch,
                   dmList, dmPos, dmErr, dmChan, dmClosed, dmSent, dxErr>>

\* lines 379-386: cp.Copy(tmpDir, e.installInto), then return true, nil
DxCopy ==
    /\ dxPc = "copy"
    /\ \/ /\ CopyConflicts(xtTmp, xtDir) = {}
          /\ xtDir' = Copy(xtTmp, xtDir)
          /\ dxRet' = [attempted |-> TRUE, err |-> Nil]
       \/ /\ xtDir' \in CopyFailing(xtTmp, xtDir)
          /\ dxRet' = [attempted |-> TRUE, err |-> Err("copying")]
    /\ dxPc' = "cleanup"
    /\ UNCHANGED <<cfgVars, envVars, cursor, unit, runVars, schedVars, histVars, rsVars,
                   ihVars, mgVars, shVars, tpVars, xtPc, xtDir0, xtArchive, xtPrefix, xtErr, xtTmp, xtScratch,
                   dmList, dmPos, dmErr, dmChan, dmClosed, dmSent, dxErr>>

\* lines 338-342: the deferred function runs as extractFiles returns
DxCleanup ==
    /\ dxPc = "cleanup"
    /\ DeferredRemoveAll(xtTmp)
    /\ dxPc' = "returned"
    /\ UNCHANGED <<cfgVars, envVars, cursor, unit, runVars, schedVars, histVars, rsVars,
                   ihVars, mgVars, shVars, tpVars, xtPc, xtDir, xtDir0, xtArchive, xtPrefix, xtErr,
                   dmList, dmPos, dmErr, dmChan, dmClosed, dmSent, dxErr, dxRet>>

(***************************************************************************)
(* Two Installers whose installInto is the same directory, each with its   *)
(* own replace prefix, running Install at the same time as two actors of   *)
(* run.Group do.  The directory is xtDir, its change time ctime[1]; each   *)
(* Installer has its own cursor.                                           *)
(***************************************************************************)
Sharers == {1, 2}
SharedPrefixes == {<<"p", ".">>, <<"a">>}

\* os.Stat(installInto) of the shared directory
SharedCtime == ctime[1]

\* Install, lines 203-224, of Installer u: the object of u was found with
\* modification time shMod[u]
ShCheck(u) ==
    /\ shPc[u] = "check"
    /\ LET empty == IsEmptyDir(Directory(Present(xtDir))).isEmpty
           res == [modTime |-> shMod[u], bucketIndex |-> 0, err |-> Nil]
           chk == checkLastModTime(res, cursor[u], SharedCtime)
           dec == InstallDecision(empty, chk)
       IN /\ cursor' = [cursor EXCEPT ![u] = chk.cursor]
          /\ shPc' = [shPc EXCEPT ![u] = IF dec.proceed THEN "clear" ELSE "skipped"]
    /\ UNCHANGED <<cfgVars, envVars, unit, runVars, schedVars, histVars, rsVars, xtVars,
                   ihVars, mgVars, dmVars, tpVars, shSrc, shPrefix, shMod>>

\* lines 113-115 for Installer u: removeContentsWithPrefix on the shared
\* directory; a removal changes the directory's change time
ShClear(u) ==
    /\ shPc[u] = "clear"
    /\ \/ /\ xtDir' = removeContentsWithPrefix(xtDir, shPrefix[u])
          /\ shPc' = [shPc EXCEPT ![u] = "copy"]
       \/ /\ xtDir' \in removeContentsFailing(xtDir, shPrefix[u])
          /\ shPc' = [shPc EXCEPT ![u] = "failed"]
    /\ ctime' = [ctime EXCEPT ![1] = IF xtDir' = xtDir THEN @ ELSE now]
    /\ UNCHANGED <<cfgVars, remote, target, now, ioFaults, cursor, unit, runVars, schedVars, histVars,
                   rsVars, ihVars, mgVars, dmVars, tpVars, shSrc, shPrefix, shMod,
                   xtPc, xtDir0, xtArchive, xtPrefix, xtTmp, xtErr, xtScratch>>

\* lines 117-123 for Installer u: cp.Copy of its scratch directory into the
\* shared directory
ShCopy(u) ==
    /\ shPc[u] = "copy"
    /\ \/ /\ CopyConflicts(shSrc[u], xtDir) = {}
          /\ xtDir' = Copy(shSrc[u], xtDir)
          /\ shPc' = [shPc EXCEPT ![u] = "done"]
       \/ /\ xtDir' \in CopyFailing(shSrc[u], xtDir)
          /\ shPc' = [shPc EXCEPT ![u] = "failed"]
    /\ ctime' = [ctime EXCEPT ![1] = now]
    /\ UNCHANGED <<cfgVars, remote, target, now, ioFaults, cursor, unit, runVars, schedVars, histVars,
                   rsVars, ihVars, mgVars, dmVars, tpVars, shSrc, shPrefix, shMod,
                   xtPc, xtDir0, xtArchive, xtPrefix, xtTmp, xtErr, xtScratch>>

(***************************************************************************)
(* installer.go, lines 77-108: the tar loop of ExtractTarGz on entries     *)
(* whose names are paths.  A path is the sequence of its components; the   *)
(* disk holds the directories below and what the loop creates.             *)
(***************************************************************************)
\* tmpDir as os.MkdirTemp returns it, under os.TempDir(), and dir
ScratchDir == <<"tmp", "s3g">>
TargetDir == <<"etc", "app">>
ExistingDirs == {<<>>, <<"tmp">>, ScratchDir, <<"etc">>, TargetDir}

\* header.Name: f, d, d/f, ../f, /etc/app/f, ../../etc/app/f
HeaderNames ==
    {<<"f">>, <<"d">>, <<"d", "f">>, <<"..", "f">>,
     <<"", "etc", "app", "f">>, <<"..", "..", "etc", "app", "f">>}
PathEntries == [name : HeaderNames, type : {"reg", "dir"}]

\* filepath.Clean on a rooted path, one component after the other
RECURSIVE Clean(_, _)
Clean(done, rest) ==
    IF rest = <<>> THEN done
    ELSE LET c == Head(rest)
         IN IF c \in {"", "."} THEN Clean(done, Tail(rest))
            ELSE IF c = ".."
            THEN Clean(IF done = <<>> THEN done ELSE SubSeq(done, 1, Len(done) - 1), Tail(rest))
            ELSE Clean(Append(done, c), Tail(rest))

\* filepath.Join(tmpDir, header.Name)
Join(dir, name) == Clean(<<>>, dir \o name)

\* the directories of the disk, given the paths the loop has created
DirsOn(fs) == ExistingDirs \cup {e.path : e \in {x \in fs : x.type = "dir"}}
PathsOn(fs) == ExistingDirs \cup {e.path : e \in fs}

\* os.Mkdir and os.Create succeed when the parent is a directory; os.Mkdir
\* fails on an existing path, os.Create on a directory
CanCreate(fs, path, type) ==
    /\ path # <<>>
    /\ SubSeq(path, 1, Len(path) - 1) \in DirsOn(fs)
    /\ IF type = "dir" THEN path \notin PathsOn(fs) ELSE path \notin DirsOn(fs)

\* lines 88-107: one entry of the archive
TpEntry ==
    /\ tpPc = "loop" /\ tpPos < Len(tpEntries)
    /\ LET e == tpEntries[tpPos + 1]
           fPath == Join(ScratchDir, e.name)
       IN IF CanCreate(tpFs, fPath, e.type)
          THEN /\ tpFs' = {x \in tpFs : x.path # fPath} \cup {[path |-> fPath, type |-> e.type, from |-> tpPos + 1]}
               /\ tpPos' = tpPos + 1
               /\ UNCHANGED tpPc
          ELSE /\ tpPc' = "failed"
               /\ UNCHANGED <<tpFs, tpPos>>
    /\ UNCHANGED <<cfgVars, envVars, cursor, unit, runVars, schedVars, histVars, rsVars, xtVars,
                   ihVars, mgVars, dmVars, shVars, tpEntries>>

\* lines 80-82: tarReader.Next returns io.EOF
TpEnd ==
    /\ tpPc = "loop" /\ tpPos = Len(tpEntries)
    /\ tpPc' = "decoded"
    /\ UNCHANGED <<cfgVars, envVars, cursor, unit, runVars, schedVars, histVars, rsVars, xtVars,
                   ihVars, mgVars, dmVars, shVars, tpEntries, tpPos, tpFs>>

(***************************************************************************)
(* installer.go, lines 253-284: checkLastModTime called again and again on *)
(* one Installer, whatever the replicas answer and whatever the change     *)
(* time of the target is at each call.                                     *)
(***************************************************************************)
CheckCall ==
    /\ rsPc \in {"check", "checked"}
    /\ \E stats \in SeqsUpTo(StatAnswers, MaxReplicas), ct \in 0..MaxClock :
         LET res == FindNewestFile(stats)
             chk == checkLastModTime(res, cursor[1], ct)
         IN /\ rsStats' = stats
            /\ rsRes' = res
            /\ ctime' = [ctime EXCEPT ![1] = ct]
            /\ prevCursor' = [prevCursor EXCEPT ![1] = cursor[1]]
            /\ cursor' = [cursor EXCEPT ![1] = chk.cursor]
            /\ rsOut' = [NoOutcome EXCEPT !.chkErr = chk.err, !.bi = chk.bi]
    /\ rsPc' = "checked"
    /\ UNCHANGED <<cfgVars, remote, target, now, ioFaults, unit, runVars, schedVars,
                   startTarget, prevOk, uploadCycle, rsMode, rsLists, rsIndex, rsGet, xtVars, auxVars>>

(***************************************************************************)
(* installer.go, lines 203-224: the head of Install of a new Installer,    *)
(* on any path given as the target and any answers of the replicas.        *)
(***************************************************************************)
InstallHead ==
    /\ ihPc = "input"
    /\ LET e == IsEmptyDir(ihDir)
           res == FindNewestFile(rsStats)
           chk == checkLastModTime(res, 0, IF ihDir.state = "missing" THEN NoStat ELSE ctime[1])
           dec == InstallDecision(e.isEmpty, chk)
       IN ihOut' = [isEmpty |-> e.isEmpty, emptyErr |-> e.err, chkErr |-> chk.err,
                    proceed |-> dec.proceed, attempted |-> dec.attempted, err |-> dec.err]
    /\ ihPc' = "decided"
    /\ UNCHANGED <<cfgVars, envVars, cursor, unit, runVars, schedVars, histVars, rsVars, xtVars,
                   ihDir, mgVars, dmVars, shVars, tpVars>>

(***************************************************************************)
(* cfg: GlobalConfig.Merge called on its own, as readFromPath calls it for *)
(* each file of a configuration directory.                                 *)
(***************************************************************************)
MergeCall ==
    /\ mgPc = "input"
    /\ mgOut' = Merge(mgRecv, mgOther)
    /\ mgPc' = "merged"
    /\ UNCHANGED <<cfgVars, envVars, cursor, unit, runVars, schedVars, histVars, rsVars, xtVars,
                   ihVars, mgRecv, mgOther, dmVars, shVars, tpVars>>

(***************************************************************************)
(* Initial states and specifications.                                      *)
(***************************************************************************)
\* the replica list of the repository's end-to-end test: two buckets
TestReplicas == 2

\* every grabber names an archive key and buckets that are configured
ArchiveGrabbersOnly == kinds = [u \in Units |-> "file"] /\ dangling = {}

ProcessStart ==
    /\ now = StartTime
    /\ cursor = [u \in Units |-> 0]
    /\ unit = [u \in Units |-> NoUnit]
    /\ runPc = "idle" /\ gctx = "active"
    /\ globalAttemptedInstall = FALSE /\ globalInstallMtx = 0
    /\ errorsCh = <<>> /\ collected = {} /\ firstErr = Nil
    /\ retAttempted = FALSE /\ retErr = Nil
    /\ cycle = 0
    /\ lastSyncSucceeded = TRUE /\ syncErrorsTotal = 0 /\ lastSuccessfulSyncTimestamp = 0
    /\ startTarget = [u \in Units |-> {}] /\ prevOk = {}
    /\ prevCursor = [u \in Units |-> 0] /\ uploadCycle = -1

ResolverIdle ==
    /\ rsPc = "idle" /\ rsMode = "file" /\ rsStats = <<>> /\ rsLists = <<>>
    /\ rsRes = NoResult /\ rsOut = NoOutcome /\ rsIndex = 0 /\ rsGet = NoGet

NoHead == [isEmpty |-> FALSE, emptyErr |-> Nil, chkErr |-> Nil,
           proceed |-> FALSE, attempted |-> FALSE, err |-> Nil]
NoConfig == [buckets |-> <<>>, grabbers |-> <<>>]

\* the parts of the program that are called on their own are not running
HeadIdle == ihPc = "idle" /\ ihDir = MissingPath /\ ihOut = NoHead
MergeIdle ==
    /\ mgPc = "idle" /\ mgRecv = NoConfig /\ mgOther = NoConfig
    /\ mgOut = [cfg |-> NoConfig, err |-> Nil]
DirModeIdle ==
    /\ dmList = <<>> /\ dmPos = 0 /\ dmErr = Nil /\ dmChan = <<>> /\ dmClosed = FALSE
    /\ dmSent = <<>> /\ dxPc = "idle" /\ dxErr = Nil /\ dxRet = [attempted |-> FALSE, err |-> Nil]
SharedIdle ==
    /\ shPc = <<>> /\ shSrc = <<>> /\ shPrefix = <<>> /\ shMod = <<>>
PathsIdle == tpPc = "idle" /\ tpEntries = <<>> /\ tpPos = 0 /\ tpFs = {}
AuxIdle == HeadIdle /\ MergeIdle /\ DirModeIdle /\ SharedIdle /\ PathsIdle

ExtractIdle ==
    /\ xtPc = "idle" /\ xtDir = EmptyDir /\ xtDir0 = EmptyDir /\ xtPrefix = <<>>
    /\ xtArchive = [damage |-> "none", entries |-> <<>>]
    /\ xtTmp = EmptyDir /\ xtErr = Nil /\ xtScratch = "none"

\* the grabbers of one-shot mode: the replicas fail; the second replica alone
\* holds an object not older than the target; the object is older than the
\* target; the object is older than the target and the target is empty
OneShotConfigs ==
    << [remote |-> <<Failure, NotFound>>, target |-> {PreEntry}],
       [remote |-> <<NotFound, Obj(StartTime)>>, target |-> {PreEntry}],
       [remote |-> <<Obj(StartTime - 1), NotFound>>, target |-> {PreEntry}],
       [remote |-> <<Obj(StartTime - 1), NotFound>>, target |-> {}] >>

\* one-shot mode: every grabber configured, each with one command.  The
\* grabbers run the same code, so one order of their configurations stands
\* for every permutation of it.
InitOneShot ==
    /\ interval = FALSE /\ schedPc = "call"
    /\ grabbers = Units
    /\ commands = [u \in Units |-> <<"touch">>]
    /\ \E f \in [Units -> 1..Len(OneShotConfigs)] :
         /\ \A u \in Units, v \in Units : u < v => f[u] <= f[v]
         /\ remote = [u \in Units |-> OneShotConfigs[f[u]].remote]
         /\ target = [u \in Units |-> OneShotConfigs[f[u]].target]
    /\ ctime = [u \in Units |-> StartTime]
    /\ ioFaults = FALSE
    /\ ArchiveGrabbersOnly /\ AuxIdle /\ ProcessStart /\ ResolverIdle /\ ExtractIdle

\* interval mode: one grabber, any answers of two replicas
InitInterval ==
    /\ interval = TRUE /\ schedPc = "call"
    /\ grabbers = {1}
    /\ \E c \in CommandLists : commands = [u \in Units |-> IF u = 1 THEN c ELSE <<>>]
    /\ \E r \in [1..TestReplicas -> StatAnswers] : remote = [u \in Units |-> IF u = 1 THEN r ELSE <<>>]
    /\ \E t \in {{}, {PreEntry}} : target = [u \in Units |-> IF u = 1 THEN t ELSE {}]
    /\ \E c \in 1..StartTime : ctime = [u \in Units |-> c]
    /\ ioFaults = TRUE
    /\ ArchiveGrabbersOnly /\ AuxIdle /\ ProcessStart /\ ResolverIdle /\ ExtractIdle

InitResolver ==
    /\ interval = FALSE /\ schedPc = "none"
    /\ grabbers = {}
    /\ commands = [u \in Units |-> <<>>]
    /\ remote = [u \in Units |-> <<>>]
    /\ target = [u \in Units |-> {}]
    /\ ctime = [u \in Units |-> StartTime]
    /\ ioFaults = FALSE
    /\ ArchiveGrabbersOnly /\ AuxIdle /\ ProcessStart /\ ExtractIdle
    /\ rsPc = "input"
    /\ rsRes = NoResult /\ rsOut = NoOutcome /\ rsIndex = 0 /\ rsGet = NoGet
    /\ \/ /\ rsMode = "file"
          /\ rsStats \in SeqsUpTo(StatAnswers, MaxReplicas)
          /\ rsLists = <<>>
       \/ /\ rsMode = "prefix"
          /\ rsLists \in SeqsUpTo(SeqsUpTo(PrefixItems, MaxList), MaxReplicas)
          /\ rsStats = <<>>

Next ==
    \/ SchedCall \/ SchedHandle
    \/ RunFirst \/ RunRest \/ RunReturn
    \/ \E u \in grabbers : UnitCheck(u)
    \/ \E u \in grabbers : UnitFetch(u)
    \/ \E u \in grabbers : UnitClear(u)
    \/ \E u \in grabbers : UnitCopy(u)
    \/ \E u \in grabbers : UnitCommand(u)
    \/ \E u \in grabbers : UnitTimeout(u)
    \/ \E u \in grabbers : UnitLock(u)
    \/ \E u \in grabbers : UnitStore(u)

\* with one actor, Run's loop over the remaining results has no iteration
NextInterval ==
    \/ SchedCall \/ SchedHandle
    \/ RunFirst \/ RunReturn
    \/ \E u \in grabbers : UnitCheck(u)
    \/ \E u \in grabbers : UnitFetch(u)
    \/ \E u \in grabbers : UnitClear(u)
    \/ \E u \in grabbers : UnitCopy(u)
    \/ \E u \in grabbers : UnitCommand(u)
    \/ \E u \in grabbers : UnitTimeout(u)
    \/ \E u \in grabbers : UnitLock(u)
    \/ \E u \in grabbers : UnitStore(u)
    \/ Tick

\* ExtractTarGz on any target directory of files, any archive, any prefix
InitExtract ==
    /\ interval = FALSE /\ schedPc = "none"
    /\ grabbers = {}
    /\ commands = [u \in Units |-> <<>>]
    /\ remote = [u \in Units |-> <<>>]
    /\ target = [u \in Units |-> {}]
    /\ ctime = [u \in Units |-> StartTime]
    /\ ioFaults = TRUE
    /\ ArchiveGrabbersOnly /\ AuxIdle /\ ProcessStart /\ ResolverIdle
    /\ xtPc = "input"
    /\ xtDir \in [EntryNames -> {Absent, OldFile}]
    /\ xtDir0 = xtDir
    /\ xtArchive \in Archives
    /\ xtPrefix \in ReplacePrefixes
    /\ xtTmp = EmptyDir /\ xtErr = Nil /\ xtScratch = "none"

\* one-shot mode on any configuration: each grabber names an archive key or
\* a prefix, and its buckets are configured or not
InitConfig ==
    /\ interval = FALSE /\ schedPc = "call"
    /\ grabbers = Units
    /\ commands = [u \in Units |-> <<"touch">>]
    /\ kinds \in [Units -> {"file", "dir"}]
    /\ dangling \in SUBSET Units
    /\ \E f \in [Units -> 1..Len(OneShotConfigs)] :
         /\ \A u \in Units, v \in Units : u < v => f[u] <= f[v]
         /\ remote = [u \in Units |-> OneShotConfigs[f[u]].remote]
         /\ target = [u \in Units |-> OneShotConfigs[f[u]].target]
    /\ ctime = [u \in Units |-> StartTime]
    /\ ioFaults = FALSE
    /\ AuxIdle /\ ProcessStart /\ ResolverIdle /\ ExtractIdle

\* the head of Install on a missing path, a file, or a directory with any of
\* two entries, and on any answers of the replicas
InitEmpty ==
    /\ interval = FALSE /\ schedPc = "none"
    /\ grabbers = {}
    /\ commands = [u \in Units |-> <<>>]
    /\ remote = [u \in Units |-> <<>>]
    /\ target = [u \in Units |-> {}]
    /\ \E c \in 0..MaxClock : ctime = [u \in Units |-> c]
    /\ ioFaults = FALSE
    /\ ArchiveGrabbersOnly /\ MergeIdle /\ DirModeIdle /\ SharedIdle /\ PathsIdle /\ ProcessStart /\ ExtractIdle
    /\ rsPc = "idle" /\ rsMode = "file" /\ rsLists = <<>>
    /\ rsStats \in SeqsUpTo(StatAnswers, MaxReplicas)
    /\ rsRes = NoResult /\ rsOut = NoOutcome /\ rsIndex = 0 /\ rsGet = NoGet
    /\ ihPc = "input" /\ ihOut = NoHead
    /\ ihDir \in {MissingPath, FilePath} \cup {Directory(e) : e \in SUBSET {PreEntry, CmdEntry}}

NextEmpty == InstallHead

\* Merge on any receiver built from earlier files and any configuration file
InitMerge ==
    /\ interval = FALSE /\ schedPc = "none"
    /\ grabbers = {}
    /\ commands = [u \in Units |-> <<>>]
    /\ remote = [u \in Units |-> <<>>]
    /\ target = [u \in Units |-> {}]
    /\ ctime = [u \in Units |-> StartTime]
    /\ ioFaults = FALSE
    /\ ArchiveGrabbersOnly /\ HeadIdle /\ DirModeIdle /\ SharedIdle /\ PathsIdle /\ ProcessStart /\ ResolverIdle /\ ExtractIdle
    /\ mgPc = "input" /\ mgOut = [cfg |-> NoConfig, err |-> Nil]
    /\ \E b \in PartialFns(BucketNames, {"minio1:9000"}),
          g \in PartialFns(GrabberNames, {WithDefaults(x) : x \in FileGrabbers}) :
         mgRecv = [buckets |-> b, grabbers |-> g]
    /\ \E b \in PartialFns(BucketNames, {"minio2:9000"}), g \in PartialFns(GrabberNames, FileGrabbers) :
         mgOther = [buckets |-> b, grabbers |-> g]

NextMerge == MergeCall

\* interval mode with a writer: one grabber with a command that writes into
\* the target, replicas that answer every request
InitUpload ==
    /\ interval = TRUE /\ schedPc = "call"
    /\ grabbers = {1}
    /\ commands = [u \in Units |-> IF u = 1 THEN <<"touch">> ELSE <<>>]
    /\ \E r \in [1..TestReplicas -> {NotFound} \cup {Obj(t) : t \in 1..StartTime}] :
         remote = [u \in Units |-> IF u = 1 THEN r ELSE <<>>]
    /\ \E t \in {{}, {PreEntry}} : target = [u \in Units |-> IF u = 1 THEN t ELSE {}]
    /\ \E c \in 1..StartTime : ctime = [u \in Units |-> c]
    /\ ioFaults = FALSE
    /\ ArchiveGrabbersOnly /\ AuxIdle /\ ProcessStart /\ ResolverIdle /\ ExtractIdle

NextUpload ==
    \/ SchedCall \/ SchedHandle
    \/ RunFirst \/ RunReturn
    \/ \E u \in grabbers : UnitCheck(u)
    \/ \E u \in grabbers : UnitFetch(u)
    \/ \E u \in grabbers : UnitClear(u)
    \/ \E u \in grabbers : UnitCopy(u)
    \/ \E u \in grabbers : UnitCommand(u)
    \/ \E u \in grabbers : UnitTimeout(u)
    \/ \E u \in grabbers : UnitLock(u)
    \/ \E u \in grabbers : UnitStore(u)
    \/ \E u \in grabbers : Upload(u)
    \/ Tick

\* one Installer of an archive grabber, its cursor empty
InitCheck ==
    /\ interval = FALSE /\ schedPc = "none"
    /\ grabbers = {}
    /\ commands = [u \in Units |-> <<>>]
    /\ remote = [u \in Units |-> <<>>]
    /\ target = [u \in Units |-> {}]
    /\ ctime = [u \in Units |-> StartTime]
    /\ ioFaults = FALSE
    /\ ArchiveGrabbersOnly /\ AuxIdle /\ ProcessStart /\ ExtractIdle
    /\ rsPc = "check" /\ rsMode = "file" /\ rsStats = <<>> /\ rsLists = <<>>
    /\ rsRes = NoResult /\ rsOut = NoOutcome /\ rsIndex = 0 /\ rsGet = NoGet

\* extractFiles on any target directory of files, any listing of the prefix,
\* any replace prefix
InitDir ==
    /\ interval = FALSE /\ schedPc = "none"
    /\ grabbers = {}
    /\ commands = [u \in Units |-> <<>>]
    /\ remote = [u \in Units |-> <<>>]
    /\ target = [u \in Units |-> {}]
    /\ ctime = [u \in Units |-> StartTime]
    /\ ioFaults = TRUE
    /\ ArchiveGrabbersOnly /\ HeadIdle /\ MergeIdle /\ SharedIdle /\ PathsIdle /\ ProcessStart /\ ResolverIdle
    /\ xtPc = "idle" /\ xtArchive = [damage |-> "none", entries |-> <<>>] /\ xtErr = Nil
    /\ xtDir \in [EntryNames -> {Absent, OldFile}]
    /\ xtDir0 = xtDir
    /\ xtPrefix \in ReplacePrefixes
    /\ xtTmp = EmptyDir /\ xtScratch = "none"
    /\ dmList \in SeqsUpTo(ListingItems, MaxListing)
    /\ dmPos = 0 /\ dmErr = Nil /\ dmChan = <<>> /\ dmClosed = FALSE /\ dmSent = <<>>
    /\ dxPc = "start" /\ dxErr = Nil /\ dxRet = [attempted |-> FALSE, err |-> Nil]

NextDir ==
    \/ GetFilesStep
    \/ GetFilesClose
    \/ DxMkdirTemp
    \/ DxReceive
    \/ DxLoopEnd
    \/ DxClear
    \/ DxCopy
    \/ DxCleanup

\* Install in both modes: interval mode with one archive grabber, or
\* directoryExtracter.extractFiles on its own
InitModes == InitInterval \/ InitDir

NextModes ==
    \/ SchedCall \/ SchedHandle
    \/ RunFirst \/ RunReturn
    \/ \E u \in grabbers : UnitCheck(u)
    \/ \E u \in grabbers : UnitFetch(u)
    \/ \E u \in grabbers : UnitClear(u)
    \/ \E u \in grabbers : UnitCopy(u)
    \/ \E u \in grabbers : UnitCommand(u)
    \/ \E u \in grabbers : UnitTimeout(u)
    \/ \E u \in grabbers : UnitLock(u)
    \/ \E u \in grabbers : UnitStore(u)
    \/ Tick
    \/ GetFilesStep
    \/ GetFilesClose
    \/ DxMkdirTemp
    \/ DxReceive
    \/ DxLoopEnd
    \/ DxClear
    \/ DxCopy
    \/ DxCleanup

\* the scratch directory in both modes: ExtractTarGz on its own, or
\* directoryExtracter.extractFiles on its own
InitScratch == InitExtract \/ InitDir

NextScratch ==
    \/ XtDecode
    \/ XtClear
    \/ XtCopy
    \/ XtCleanup
    \/ GetFilesStep
    \/ GetFilesClose
    \/ DxMkdirTemp
    \/ DxReceive
    \/ DxLoopEnd
    \/ DxClear
    \/ DxCopy
    \/ DxCleanup

\* two Installers on one directory of files: prefixes of which neither
\* begins with the other, each Installer's archive holding names under its
\* own prefix, objects of any modification time, any earlier change time of
\* the directory
InitShared ==
    /\ interval = FALSE /\ schedPc = "none"
    /\ grabbers = {}
    /\ commands = [u \in Units |-> <<>>]
    /\ remote = [u \in Units |-> <<>>]
    /\ target = [u \in Units |-> {}]
    /\ \E c \in 1..StartTime : ctime = [u \in Units |-> c]
    /\ ioFaults = TRUE
    /\ ArchiveGrabbersOnly /\ HeadIdle /\ MergeIdle /\ DirModeIdle /\ PathsIdle /\ ProcessStart /\ ResolverIdle
    /\ xtPc = "idle" /\ xtArchive = [damage |-> "none", entries |-> <<>>] /\ xtErr = Nil
    /\ xtPrefix = <<>> /\ xtTmp = EmptyDir /\ xtScratch = "none"
    /\ xtDir \in [EntryNames -> {Absent, OldFile}]
    /\ xtDir0 = xtDir
    /\ shPc = [u \in Sharers |-> "check"]
    /\ shPrefix \in {f \in [Sharers -> SharedPrefixes] :
                       ~HasPrefix(f[1], f[2]) /\ ~HasPrefix(f[2], f[1])}
    /\ shSrc \in {f \in [Sharers -> [EntryNames -> {Absent} \cup {NewFile(u) : u \in Sharers}]] :
                    \A u \in Sharers, n \in EntryNames :
                        f[u][n] # Absent => (f[u][n] = NewFile(u) /\ HasPrefix(n, shPrefix[u]))}
    /\ shMod \in [Sharers -> 1..MaxTime]

NextShared ==
    \/ \E u \in Sharers : ShCheck(u)
    \/ \E u \in Sharers : ShClear(u)
    \/ \E u \in Sharers : ShCopy(u)
    \/ Tick

\* the tar loop on any archive of up to MaxEntries entries named by paths
InitPaths ==
    /\ interval = FALSE /\ schedPc = "none"
    /\ grabbers = {}
    /\ commands = [u \in Units |-> <<>>]
    /\ remote = [u \in Units |-> <<>>]
    /\ target = [u \in Units |-> {}]
    /\ ctime = [u \in Units |-> StartTime]
    /\ ioFaults = FALSE
    /\ ArchiveGrabbersOnly /\ HeadIdle /\ MergeIdle /\ DirModeIdle /\ SharedIdle
    /\ ProcessStart /\ ResolverIdle /\ ExtractIdle
    /\ tpPc = "loop" /\ tpPos = 0 /\ tpFs = {}
    /\ tpEntries \in SeqsUpTo(PathEntries, MaxEntries)

NextPaths == TpEntry \/ TpEnd

\* one-shot mode from the reading of the configuration on: each grabber
\* names a file, a prefix, both or neither; all grabbers have the same
\* replicas and target
InitValidate ==
    /\ interval = FALSE /\ schedPc = "start"
    /\ grabbers = Units
    /\ commands = [u \in Units |-> <<"touch">>]
    /\ kinds \in [Units -> GrabberKinds]
    /\ dangling = {}
    /\ \E c \in 1..Len(OneShotConfigs) :
         /\ remote = [u \in Units |-> OneShotConfigs[c].remote]
         /\ target = [u \in Units |-> OneShotConfigs[c].target]
    /\ ctime = [u \in Units |-> StartTime]
    /\ ioFaults = FALSE
    /\ AuxIdle /\ ProcessStart /\ ResolverIdle /\ ExtractIdle

NextValidate ==
    \/ ReadConfigCall
    \/ SchedCall \/ SchedHandle
    \/ RunFirst \/ RunRest \/ RunReturn
    \/ \E u \in grabbers : UnitCheck(u)
    \/ \E u \in grabbers : UnitFetch(u)
    \/ \E u \in grabbers : UnitClear(u)
    \/ \E u \in grabbers : UnitCopy(u)
    \/ \E u \in grabbers : UnitCommand(u)
    \/ \E u \in grabbers : UnitTimeout(u)
    \/ \E u \in grabbers : UnitLock(u)
    \/ \E u \in grabbers : UnitStore(u)

NextCheck == CheckCall

NextExtract == XtDecode \/ XtClear \/ XtCopy \/ XtCleanup

NextResolver == ResolveFile \/ ResolvePrefix \/ ResolveDecide \/ CallGetFile \/ CallGetFiles

\* one-shot mode with NumUnits grabbers
Spec == InitOneShot /\ [][Next]_vars
\* interval mode with one grabber
SpecInterval == InitInterval /\ [][NextInterval]_vars
\* the resolver and fetcher on every bounded input
SpecResolver == InitResolver /\ [][NextResolver]_vars
\* the head of Install on every bounded input
SpecEmpty == InitEmpty /\ [][NextEmpty]_vars
\* GlobalConfig.Merge on every bounded input
SpecMerge == InitMerge /\ [][NextMerge]_vars
\* one-shot mode on every bounded configuration
SpecConfig == InitConfig /\ [][Next]_vars
\* interval mode with one grabber and a writer of new versions
SpecUpload == InitUpload /\ [][NextUpload]_vars
\* checkLastModTime called repeatedly on one Installer
SpecCheck == InitCheck /\ [][NextCheck]_vars
\* ExtractTarGz on every bounded input
SpecExtract == InitExtract /\ [][NextExtract]_vars
\* Install in archive mode and extractFiles in directory mode
SpecModes == InitModes /\ [][NextModes]_vars
\* the scratch directory of ExtractTarGz and of directory mode
SpecScratch == InitScratch /\ [][NextScratch]_vars
\* two Installers sharing one target directory
SpecShared == InitShared /\ [][NextShared]_vars
\* the tar loop on entry names that are paths
SpecPaths == InitPaths /\ [][NextPaths]_vars
\* one-shot mode from the reading of the configuration on
SpecValidate == InitValidate /\ [][NextValidate]_vars
\* directory mode: GetFiles and extractFiles on every bounded input
SpecDir == InitDir /\ [][NextDir]_vars

(***************************************************************************)
(* Claims about the Orchestrator (Spec: one-shot mode).                    *)
(***************************************************************************)
Returned(u) == unit[u].pc = "done"

\* C1: when RunS3Grabber has returned and the Install of some Sync Unit
\* returned a non-nil error in that call, RunS3Grabber returned a non-nil
\* error, whatever the order in which the units completed.
C1_AnyUnitErrorIsReturned ==
    runPc = "returned" =>
        ((\E u \in grabbers : Returned(u) /\ unit[u].err # Nil) => retErr # Nil)

\* C2: the attempted flag RunS3Grabber returns is true exactly when the
\* Install of at least one Sync Unit returned attempted=true in that call
\* (whatever the errors and the completion order), and the flag is read only
\* when every unit has stored its contribution.
C2_AttemptedIffSomeUnitAttempted ==
    /\ runPc \in {"return", "returned"} => \A u \in grabbers : Returned(u)
    /\ runPc = "returned" => (retAttempted <=> \E u \in grabbers : unit[u].attempted)

\* C2 witness: a call has returned attempted=true where one unit attempted
\* and failed and another unit did not attempt.
C2_Witness ==
    /\ runPc = "returned" /\ retAttempted
    /\ \E u \in grabbers : unit[u].attempted /\ unit[u].err # Nil
    /\ \E u \in grabbers : ~unit[u].attempted

\* C3: once run.Group has received a non-nil error from a Sync Unit, the
\* shared context gctx of the call is cancelled, whether that unit was the
\* first to return or returned after a sibling that succeeded.
C3_ErrorCancelsSharedScope ==
    \A u \in collected : unit[u].err # Nil => gctx = "canceled"

(***************************************************************************)
(* Claims about the Sync Unit over several cycles (SpecInterval).          *)
(***************************************************************************)
\* C4: in a RunS3Grabber call that follows one in which the unit installed
\* successfully, with the remote unchanged (the model never changes it) and
\* the target not empty at the call, the unit's Install returns
\* attempted=false, leaves the target's entries as they were and runs no
\* command, whatever the remote modification time is relative to the clock
\* and the target's change time.
C4_UnchangedRemoteNoSecondInstall ==
    \A u \in grabbers :
        (u \in prevOk /\ Returned(u) /\ startTarget[u] # {}) =>
            (~unit[u].attempted /\ target[u] = startTarget[u] /\ unit[u].cmdIdx = 0)

\* C5: when Install found the target empty and the resolver found the
\* object, Install goes on to the fetch from the replica the resolver named
\* and returns attempted=true, also when the freshness check said NoUpdate;
\* when it then returns no error, the target holds the fetched object's
\* content and every configured command has run.
C5_EmptyTargetForcesInstall ==
    \A u \in grabbers :
        (unit[u].pc \notin {"none", "install"} /\ unit[u].isEmpty /\ unit[u].found) =>
            /\ unit[u].pc \in {"lock", "store", "done"} => unit[u].attempted
            /\ (Returned(u) /\ unit[u].err = Nil) =>
                  /\ ObjEntry(unit[u].bucketIndex, unit[u].modTime) \in target[u]
                  /\ remote[u][unit[u].bucketIndex + 1] = Obj(unit[u].modTime)
                  /\ unit[u].cmdIdx = Len(commands[u])

\* C5 witness: a forced install (empty target, NoUpdate) has returned
\* (true, nil) and the target holds the object.
C5_Witness ==
    \E u \in grabbers :
        /\ Returned(u) /\ unit[u].isEmpty /\ unit[u].found /\ unit[u].noUpdate
        /\ unit[u].attempted /\ unit[u].err = Nil
        /\ ObjEntry(unit[u].bucketIndex, unit[u].modTime) \in target[u]

(***************************************************************************)
(* Claims about the Replica Resolver and the Content Fetcher               *)
(* (SpecResolver).                                                         *)
(***************************************************************************)
\* the items replica i (0-based) answered: its StatObject answer, or its listing
ItemsOf(i) ==
    IF rsMode = "file" THEN <<rsStats[i + 1]>> ELSE rsLists[i + 1]

Replicas == 0..(rsClients - 1)

\* the modification times of the objects replica i holds
TimesOf(i) ==
    {ItemsOf(i)[j].t : j \in {j \in 1..Len(ItemsOf(i)) : ItemsOf(i)[j].k = "obj" /\ ItemsOf(i)[j].t > 0}}

Holders == {i \in Replicas : TimesOf(i) # {}}
AllTimes == UNION {TimesOf(i) : i \in Replicas}
Greatest == CHOOSE t \in AllTimes : \A x \in AllTimes : x <= t
Failing == {i \in Replicas : \E j \in 1..Len(ItemsOf(i)) : ItemsOf(i)[j].k = "failure"}

\* replica i alone holds an object of the greatest modification time
UniqueNewest(i) ==
    /\ Greatest \in TimesOf(i)
    /\ \A j \in Holders \ {i} : \A x \in TimesOf(j) : x < Greatest

Resolved == rsPc \in {"resolved", "decided"}

\* C6: when exactly one replica of the list holds the object with the
\* strictly greatest modification time, FindNewestFile returns that time
\* and that replica's index and no error, wherever the replica stands and
\* whatever the others answer (an older object, not-found, an error).
C6_UniqueNewestIsFound ==
    (Resolved /\ rsMode = "file") =>
        \A i \in Holders :
            UniqueNewest(i) => rsRes = [modTime |-> Greatest, bucketIndex |-> i, err |-> Nil]

\* C6 witness: the newest object is on the last replica, after an older one.
C6_Witness ==
    /\ Resolved /\ rsMode = "file" /\ rsClients >= 2
    /\ rsStats[1] = Obj(1) /\ rsStats[rsClients] = Obj(2)
    /\ rsRes = [modTime |-> 2, bucketIndex |-> rsClients - 1, err |-> Nil]

\* C7: when every replica answers not-found for the key (in prefix mode:
\* no replica lists an object under the prefix), or no replica is
\* configured, FindNewestFile and FindNewestInPrefix return an error.
C7_NothingFoundIsAnError ==
    Resolved =>
        (( \/ rsClients = 0
           \/ rsMode = "file" /\ \A i \in Replicas : rsStats[i + 1] = NotFound
           \/ rsMode = "prefix" /\ Holders = {} ) => rsRes.err # Nil)

\* C7 witness: two replicas, both not-found, and the resolver returned an error.
C7_Witness ==
    /\ Resolved /\ rsMode = "file" /\ rsClients = 2
    /\ \A i \in Replicas : rsStats[i + 1] = NotFound
    /\ rsRes.err = Err("no file has been modified")

\* C8: a replica that fails with another error than not-found does not end
\* the scan: when some replica holds an object the resolver returns no
\* error and names a replica that holds the newest object; the collected
\* errors (those of every failing replica, in order) are returned only when
\* no replica yielded an object, and Install then returns attempted=false
\* with that error and does not go on to the fetch.
C8_FailingReplicaDoesNotStopScan ==
    /\ (Resolved /\ Holders # {}) =>
          /\ rsRes.err = Nil
          /\ rsRes.bucketIndex \in Holders
          /\ rsRes.modTime = Greatest
          /\ Greatest \in TimesOf(rsRes.bucketIndex)
    /\ (Resolved /\ Holders = {} /\ Failing # {}) =>
          /\ rsRes.err.code = "multierror"
          /\ {rsRes.err.at[k] : k \in 1..Len(rsRes.err.at)} = Failing
    /\ (Resolved /\ rsRes.err.code = "multierror") => Holders = {}
    /\ (rsPc = "decided" /\ rsRes.err # Nil) =>
          /\ ~rsOut.proceed /\ ~rsOut.attempted
          /\ rsOut.err # Nil /\ rsOut.err.at = rsRes.err.at

\* C8 witness: the first replica failed, the second holds the object, and
\* the resolver returned the second without error.
C8_Witness ==
    /\ Resolved /\ rsClients = 2
    /\ 0 \in Failing /\ Holders = {1}
    /\ rsRes.err = Nil /\ rsRes.bucketIndex = 1

\* C9: when several replicas hold objects with the same greatest
\* modification time, FindNewestFile and FindNewestInPrefix return the
\* smallest index among them.
C9_TieGoesToFirstReplica ==
    (Resolved /\ Holders # {}) =>
        /\ Greatest \in TimesOf(rsRes.bucketIndex)
        /\ \A i \in Holders : Greatest \in TimesOf(i) => rsRes.bucketIndex <= i

\* C9 witness: two replicas list an object of the same greatest time and
\* the resolver returned index 0.
C9_Witness ==
    /\ Resolved /\ rsMode = "prefix" /\ rsClients = 2 /\ Holders # {}
    /\ Greatest \in TimesOf(0) /\ Greatest \in TimesOf(1)
    /\ rsRes.bucketIndex = 0 /\ rsRes.err = Nil

\* C10: GetFile and GetFiles called with an index that is negative or not
\* below the number of replicas (index 0 of an empty list included) return
\* an error and no stream or channel, and contact no replica.
C10_BadIndexIsRejected ==
    (rsPc = "got" /\ (rsIndex < 0 \/ rsIndex >= rsClients)) =>
        /\ rsGet.err # Nil /\ ~rsGet.panic
        /\ ~rsGet.rc.open
        /\ rsGet.contacted = {}

\* C10 witness: index 0 on an empty replica list was rejected.
C10_Witness ==
    /\ rsPc = "got" /\ rsClients = 0 /\ rsIndex = 0
    /\ rsGet.err = Err("provided bucket index is out of bounds")


(***************************************************************************)
(* Claims about ExtractTarGz (SpecExtract).                                *)
(***************************************************************************)
InArchive(n) == \E k \in 1..Len(xtArchive.entries) : xtArchive.entries[k].name = n

\* the last entry of the archive under a name, and what it holds
LastOf(n) ==
    CHOOSE k \in 1..Len(xtArchive.entries) :
        /\ xtArchive.entries[k].name = n
        /\ \A j \in (k + 1)..Len(xtArchive.entries) : xtArchive.entries[j].name # n
ArchiveContent(n) ==
    IF xtArchive.entries[LastOf(n)].type = "dir" THEN DirEntry ELSE NewFile(LastOf(n))

Extracted == xtPc = "done"

\* C11: after a successful ExtractTarGz with an empty replace-prefix the
\* target holds exactly the entries of the archive, with the archive's
\* content: every entry that was there before and is not in the archive is
\* absent, whatever the target held before (nothing included).
C11_EmptyPrefixLeavesExactlyTheArchive ==
    (Extracted /\ xtPrefix = <<>>) =>
        \A n \in EntryNames :
            xtDir[n] = IF InArchive(n) THEN ArchiveContent(n) ELSE Absent

C11_Witness ==
    /\ Extracted /\ xtPrefix = <<>>
    /\ \E n \in EntryNames : xtDir0[n] # Absent /\ ~InArchive(n) /\ xtDir[n] = Absent
    /\ \E n \in EntryNames : InArchive(n) /\ xtDir0[n] = Absent /\ xtDir[n] = ArchiveContent(n)

\* C12: after a successful extraction with a non-empty replace-prefix P, an
\* entry that was in the target before and is not in the archive is absent
\* if and only if its name starts with P (the entry named "p" stays under
\* P = "p."), and every entry of the archive is present with the archive's
\* content.
C12_PrefixRemovesExactlyMatchingNames ==
    (Extracted /\ xtPrefix # <<>>) =>
        \A n \in EntryNames :
            /\ (xtDir0[n] # Absent /\ ~InArchive(n)) =>
                   (xtDir[n] = Absent <=> HasPrefix(n, xtPrefix))
            /\ (xtDir0[n] # Absent /\ ~InArchive(n) /\ xtDir[n] # Absent) => xtDir[n] = xtDir0[n]
            /\ InArchive(n) => xtDir[n] = ArchiveContent(n)

C12_Witness ==
    /\ Extracted /\ xtPrefix = <<"p", ".">>
    /\ xtDir0[<<"p">>] = OldFile /\ ~InArchive(<<"p">>) /\ xtDir[<<"p">>] = OldFile
    /\ xtDir0[<<"p", ".", "o">>] = OldFile /\ ~InArchive(<<"p", ".", "o">>)
    /\ xtDir[<<"p", ".", "o">>] = Absent
    /\ \E n \in EntryNames : InArchive(n)

\* C13: with a non-empty replace-prefix, every entry that was in the target
\* before the extraction and whose name does not start with the prefix is
\* still present with its original content after a successful extraction,
\* whatever the archive contains.
C13_NonMatchingEntriesKeepTheirContent ==
    (Extracted /\ xtPrefix # <<>>) =>
        \A n \in EntryNames :
            (xtDir0[n] # Absent /\ ~HasPrefix(n, xtPrefix)) => xtDir[n] = xtDir0[n]



(***************************************************************************)
(* Claims about the Staleness Cursor.                                      *)
(***************************************************************************)
\* C14: in interval mode the cursor value recorded for a Sync Unit during
\* one RunS3Grabber call is the value its check compares against in the
\* next call of the same process.
C14_CursorHeldAcrossRuns ==
    \A u \in grabbers :
        (interval /\ cycle >= 2 /\ unit[u].pc = "install") => cursor[u] = prevCursor[u]

Checked == rsPc = "checked"

\* C15: within one Installer the cursor never decreases: a call of
\* checkLastModTime changes it only to a remote modification time strictly
\* greater than its value, and a remote modification time less than or equal
\* to the cursor gives ErrNoUpdate and leaves the cursor as it was.
C15_CursorNeverDecreases ==
    Checked =>
        /\ cursor[1] >= prevCursor[1]
        /\ cursor[1] # prevCursor[1] =>
               (rsRes.err = Nil /\ cursor[1] = rsRes.modTime /\ rsRes.modTime > prevCursor[1])
        /\ (rsRes.err = Nil /\ rsRes.modTime <= prevCursor[1]) =>
               (rsOut.chkErr = ErrNoUpdate /\ cursor[1] = prevCursor[1])

C15_Witness ==
    /\ Checked /\ rsRes.err = Nil
    /\ prevCursor[1] > 0 /\ rsRes.modTime < prevCursor[1] /\ rsRes.modTime >= ctime[1]
    /\ rsOut.chkErr = ErrNoUpdate /\ cursor[1] = prevCursor[1]

\* C16: checkLastModTime answers ErrNoUpdate whenever the remote
\* modification time is not strictly after the change time of the target
\* directory, the two being equal included.
C16_NotAfterCtimeIsNoUpdate ==
    (Checked /\ rsRes.err = Nil /\ rsRes.modTime <= ctime[1]) => rsOut.chkErr = ErrNoUpdate



(***************************************************************************)
(* Claims about interval mode with a writer (SpecUpload).                  *)
(***************************************************************************)
\* the replicas of u that hold the version of the latest LastModified
NewestAt(u) ==
    {i \in 1..Len(remote[u]) :
        /\ remote[u][i].k = "obj"
        /\ \A j \in 1..Len(remote[u]) : remote[u][j].k = "obj" => remote[u][j].t <= remote[u][i].t}

Mirrors(u) == \E i \in NewestAt(u) : ObjEntry(i - 1, remote[u][i].t) \in target[u]

\* C17: in interval mode with no failing operation, a version that a replica
\* received with a modification time newer than every earlier version, and
\* that then stayed unchanged, is installed by a later cycle, wherever the
\* upload fell in the cycle running at the time.  With the remote unchanged
\* every cycle after the upload decides as the first one does, so the
\* version is in the target when the first cycle begun after the upload has
\* returned, or it never is.
C17_NewestUploadIsInstalled ==
    (/\ interval /\ schedPc = "running" /\ runPc = "returned"
     /\ uploadCycle >= 0 /\ cycle > uploadCycle
     /\ syncErrorsTotal = 0 /\ retErr = Nil)
        => \A u \in grabbers : Mirrors(u)



(***************************************************************************)
(* Claims about the Scheduler and the commands (SpecInterval).             *)
(***************************************************************************)
\* the step in which the scheduler has the results of a cycle and acts on them
Handles == interval /\ schedPc = "running" /\ schedPc' # "running"

\* C18: in interval mode a cycle error never ends the scheduler loop: a
\* cycle whose RunS3Grabber returned an error adds exactly one to the error
\* counter, leaves the last-success gauge as it was and leads to the next
\* call of RunS3Grabber; the counter changes in no other step, and the
\* scheduler never exits.
C18_CycleErrorIsCountedAndLoopGoesOn ==
    /\ [](interval => schedPc \in {"call", "running"})
    /\ [][/\ (Handles /\ retErr # Nil) =>
                /\ syncErrorsTotal' = syncErrorsTotal + 1
                /\ lastSuccessfulSyncTimestamp' = lastSuccessfulSyncTimestamp
                /\ schedPc' = "call"
          /\ syncErrorsTotal' # syncErrorsTotal => (Handles /\ retErr # Nil)]_vars

C18_Witness ==
    /\ interval /\ cycle = 2 /\ schedPc = "running" /\ syncErrorsTotal = 1
    /\ lastSuccessfulSyncTimestamp = 0

\* C19: lastSyncSucceeded starts true, becomes false only in a cycle with
\* attempted=true and an error, and becomes true again only in a cycle with
\* attempted=true and no error; the last-success gauge is set to the
\* current time in a cycle exactly when the cycle returned no error and the
\* flag is true afterwards, and it changes in no other step: once a cycle
\* attempted and failed, a cycle with attempted=false leaves the gauge alone.
C19_FlagAndGauge ==
    /\ lastSyncSucceeded = TRUE
    /\ [][/\ (lastSyncSucceeded /\ ~lastSyncSucceeded') => (Handles /\ retAttempted /\ retErr # Nil)
          /\ (~lastSyncSucceeded /\ lastSyncSucceeded') => (Handles /\ retAttempted /\ retErr = Nil)
          /\ (Handles /\ retAttempted) => lastSyncSucceeded' = (retErr = Nil)
          /\ Handles =>
                IF retErr = Nil /\ lastSyncSucceeded'
                THEN lastSuccessfulSyncTimestamp' = now
                ELSE lastSuccessfulSyncTimestamp' = lastSuccessfulSyncTimestamp
          /\ ~Handles => lastSuccessfulSyncTimestamp' = lastSuccessfulSyncTimestamp]_vars

\* the second cycle neither attempted nor failed after the first attempted
\* and failed: the gauge was never set
C19_Witness ==
    /\ interval /\ cycle = 2 /\ schedPc = "call"
    /\ ~retAttempted /\ retErr = Nil /\ syncErrorsTotal = 1
    /\ ~lastSyncSucceeded /\ lastSuccessfulSyncTimestamp = 0

\* C20: the post-install commands start only when the copy into the target
\* has completed successfully, they run one at a time in the configured
\* order, and the first command that fails ends the sequence: no later
\* command is started and Install returns attempted=true with an error.
C20_CommandsAfterCopyInOrder ==
    /\ [](\A u \in grabbers :
            /\ (unit[u].pc = "cmd" \/ unit[u].cmdIdx > 0) =>
                   (unit[u].scratch # {} /\ unit[u].scratch \subseteq target[u])
            /\ unit[u].cmdIdx <= Len(commands[u])
            /\ unit[u].err = Err("executing") =>
                   (unit[u].attempted /\ unit[u].pc # "cmd" /\ unit[u].cmdIdx < Len(commands[u])))
    /\ [][\A u \in grabbers :
            /\ unit'[u].cmdIdx # unit[u].cmdIdx =>
                   \/ unit[u].pc = "cmd" /\ unit'[u].cmdIdx = unit[u].cmdIdx + 1 /\ unit'[u].err = Nil
                   \/ unit'[u].pc = "install" /\ unit'[u].cmdIdx = 0
            /\ (unit[u].pc = "cmd" /\ unit'[u].pc # "cmd" /\ unit'[u].cmdIdx < Len(commands[u])) =>
                   (unit'[u].attempted /\ unit'[u].err = Err("executing"))]_vars

\* the first of two commands failed: the second was not started
C20_Witness ==
    \E u \in grabbers :
        /\ Len(commands[u]) = 2 /\ unit[u].pc = "done" /\ unit[u].cmdIdx = 0
        /\ unit[u].err = Err("executing") /\ unit[u].attempted
        /\ unit[u].scratch \subseteq target[u] /\ CmdEntry \notin target[u]



(***************************************************************************)
(* Claims about the configuration RunS3Grabber is given (SpecConfig).      *)
(***************************************************************************)
\* C21: when a grabber names a bucket that the configuration does not have,
\* RunS3Grabber returns an error with attempted=false before any Sync Unit
\* starts: no target directory is touched and no command runs, in whatever
\* order the grabbers are visited.
C21_MissingBucketStopsTheRun ==
    (cycle >= 1 /\ dangling # {}) =>
        /\ runPc = "returned" /\ retErr # Nil /\ ~retAttempted
        /\ target = startTarget
        /\ \A u \in grabbers : unit[u].pc = "none" /\ unit[u].cmdIdx = 0

\* the other grabber could have installed
C21_Witness ==
    /\ schedPc = "exit1" /\ dangling = {2} /\ kinds[1] = "file"
    /\ target[1] = {} /\ retErr = Err("failed to find bucket")

\* C22: RunS3Grabber builds and runs one Sync Unit for every configured
\* grabber, whether it names an archive key (file) or a prefix (dir).
C22_EveryGrabberRuns ==
    (runPc = "returned" /\ dangling = {}) => \A u \in grabbers : Returned(u)



(***************************************************************************)
(* Claims about IsEmptyDir (SpecEmpty).                                    *)
(***************************************************************************)
\* C23: IsEmptyDir returns (true, nil) exactly when the path is a directory
\* with no entry, (false, nil) when it is a directory with an entry, and
\* (false, error) when it cannot be opened; Install takes the error case for
\* a target that is not empty: it goes on to extract only on an update.
C23_IsEmptyDirResults ==
    ihPc = "decided" =>
        /\ (ihOut.isEmpty /\ ihOut.emptyErr = Nil) <=> (ihDir.state = "dir" /\ ihDir.entries = {})
        /\ (ihDir.state = "dir" /\ ihDir.entries # {}) => (~ihOut.isEmpty /\ ihOut.emptyErr = Nil)
        /\ ihDir.state = "missing" => (~ihOut.isEmpty /\ ihOut.emptyErr # Nil)
        /\ ihOut.emptyErr # Nil => (~ihOut.isEmpty /\ (ihOut.proceed <=> ihOut.chkErr = Nil))

\* a file given as the target, and an object the check takes for an update
C23_Witness ==
    /\ ihPc = "decided" /\ ihDir.state = "notdir"
    /\ ihOut.emptyErr # Nil /\ ~ihOut.isEmpty /\ ihOut.proceed /\ ihOut.chkErr = Nil



(***************************************************************************)
(* Claims about GlobalConfig.Merge (SpecMerge).                            *)
(***************************************************************************)
SharesName ==
    \/ DOMAIN mgOther.buckets \cap DOMAIN mgRecv.buckets # {}
    \/ DOMAIN mgOther.grabbers \cap DOMAIN mgRecv.grabbers # {}

\* C24: Merge with a configuration that shares a bucket name or a grabber
\* name with the receiver returns an error and leaves the receiver's buckets
\* and grabbers as they were; otherwise it returns no error and the receiver
\* holds its own buckets and grabbers and every bucket and grabber of the
\* other configuration.
C24_MergeIsAllOrNothing ==
    mgPc = "merged" =>
        IF SharesName
        THEN mgOut.err # Nil /\ mgOut.cfg = mgRecv
        ELSE /\ mgOut.err = Nil
             /\ DOMAIN mgOut.cfg.buckets = DOMAIN mgRecv.buckets \cup DOMAIN mgOther.buckets
             /\ DOMAIN mgOut.cfg.grabbers = DOMAIN mgRecv.grabbers \cup DOMAIN mgOther.grabbers
             /\ \A b \in DOMAIN mgRecv.buckets : mgOut.cfg.buckets[b] = mgRecv.buckets[b]
             /\ \A b \in DOMAIN mgOther.buckets : mgOut.cfg.buckets[b] = mgOther.buckets[b]
             /\ \A g \in DOMAIN mgRecv.grabbers : mgOut.cfg.grabbers[g] = mgRecv.grabbers[g]
             /\ \A g \in DOMAIN mgOther.grabbers :
                    /\ mgOther.grabbers[g].shell # "" =>
                           mgOut.cfg.grabbers[g].shell = mgOther.grabbers[g].shell
                    /\ mgOther.grabbers[g].timeout # 0 =>
                           mgOut.cfg.grabbers[g].timeout = mgOther.grabbers[g].timeout

\* the other configuration brings a new bucket and a grabber of a name the
\* receiver has
C24_Witness ==
    /\ mgPc = "merged" /\ mgOut.err = Err("found duplicated grabber name")
    /\ DOMAIN mgOther.buckets # {} /\ mgOut.cfg = mgRecv



(***************************************************************************)
(* More claims about ExtractTarGz (SpecExtract).                           *)
(***************************************************************************)
\* ExtractTarGz returned an error from the decoding, lines 60-108
DecodeFailed == xtPc = "failed" /\ xtErr \notin {Nil, Err("clearing"), Err("copying")}

ErrorSent == \E i \in 1..Len(dmSent) : dmSent[i].err # Nil
AllDelivered == dxPc \in {"clear", "copy"} \/ (dxPc = "returned" /\ dxRet.err # Err("creating temp dir"))

\* C26: when an item delivered on the channel carries an error, extractFiles
\* returns an error and the target is neither cleared nor written.
C26_ItemErrorFailsExtract ==
    (ErrorSent /\ AllDelivered) =>
        /\ dxPc = "returned"
        /\ dxRet.err # Nil
        /\ xtDir = xtDir0

\* C27: after the first BucketFile with an error GetFiles emits no other
\* BucketFile; it reads the listing to its end and then closes the channel.
C27_NothingEmittedAfterAnError ==
    /\ \A i \in 1..Len(dmSent), j \in 1..Len(dmSent) : i < j => dmSent[i].err = Nil
    /\ dmClosed => dmPos = Len(dmList)

(***************************************************************************)
(* More claims about Install and the Orchestrator.                         *)
(***************************************************************************)
UpdateDetected(u) == unit[u].found /\ ~unit[u].noUpdate
PastCheck(u) == unit[u].pc \notin {"none", "install"}
ChecksNow(u) == unit[u].pc = "install" /\ unit'[u].pc # "install"

\* C28: from the step in which checkLastModTime detects an update the cursor
\* is the new remote modification time, through the fetch, the clear, the
\* copy and the commands and whatever their outcome; a check that detects no
\* update (a forced install of an empty target included) leaves the cursor as
\* it was, and no later step of Install changes it.
C28_CursorAdvancesBeforeInstall ==
    /\ [](\A u \in grabbers : (PastCheck(u) /\ UpdateDetected(u)) => cursor[u] = unit[u].modTime)
    /\ [][\A u \in grabbers :
            /\ ChecksNow(u) =>
                 cursor'[u] = IF UpdateDetected(u)' THEN unit'[u].modTime ELSE cursor[u]
            /\ (~ChecksNow(u) /\ cycle' = cycle) => cursor'[u] = cursor[u]]_vars
C28_Witness ==
    /\ unit[1].pc = "lock" /\ unit[1].attempted /\ unit[1].err = Err("executing")
    /\ UpdateDetected(1)
    /\ unit[1].modTime > 0 /\ cursor[1] = unit[1].modTime

\* C29: a unit whose context is done (its timeout has elapsed or the shared
\* context is cancelled) begins no clear step, no copy step and no command:
\* its target stays as it is and no further command runs.
C29_DoneContextStopsMutation ==
    [][\A u \in grabbers :
         ctxDone(u) => /\ target'[u] = target[u]
                       /\ unit'[u].cmdIdx = unit[u].cmdIdx]_vars

\* C30: when RunS3Grabber returns, every unit it started has returned from
\* Install and from its actor, also when the first result was an error and
\* the shared context was cancelled; after the return no target changes
\* until the next call.
C30_ReturnsAfterEveryUnit ==
    /\ [](runPc \in {"return", "returned"} =>
            \A u \in grabbers : unit[u].pc \in {"none", "done"})
    /\ [][(runPc = "returned" /\ cycle' = cycle) => target' = target]_vars
C30_Witness ==
    /\ runPc = "returned" /\ gctx = "canceled" /\ firstErr # Nil
    /\ \E u \in grabbers, v \in grabbers :
         /\ u # v
         /\ unit[u].pc = "done" /\ unit[u].err = firstErr
         /\ unit[v].pc = "done" /\ unit[v].attempted /\ unit[v].err # Nil /\ ~unit[v].timedOut

\* C31: a cycle that installs reads the content from the replica index the
\* resolver returned in that cycle, which holds the newest object, also when
\* the freshness check returned NoUpdate and the empty target forces the
\* install.
C31_FetchesFromResolvedReplica ==
    /\ [](\A u \in grabbers :
            unit[u].pc \in {"clear", "copy"} =>
                /\ unit[u].bucketIndex + 1 \in NewestAt(u)
                /\ unit[u].scratch =
                       {ObjEntry(unit[u].bucketIndex, remote[u][unit[u].bucketIndex + 1].t)})
    /\ [][\A u \in grabbers :
            (ChecksNow(u) /\ unit'[u].pc = "fetch") =>
                unit'[u].bucketIndex = FindNewestFile(Answers(u)).bucketIndex]_vars
C31_Witness ==
    /\ unit[1].pc = "copy" /\ unit[1].noUpdate /\ unit[1].isEmpty
    /\ unit[1].bucketIndex = 1
    /\ unit[1].scratch = {ObjEntry(1, remote[1][2].t)}
    /\ remote[1][1].k = "obj"

\* C32: Install returns attempted = true only when the clear step on the
\* target was at least started in that call.
C32_AttemptedOnlyAfterClearBegan ==
    [][\A u \in grabbers :
         (unit'[u].attempted /\ ~unit[u].attempted) =>
             unit[u].pc \in {"clear", "copy", "cmd"}]_vars

(***************************************************************************)
(* Claims about both modes (SpecModes, SpecScratch).                       *)
(***************************************************************************)
\* C33: when Install, or extractFiles of directory mode, has returned
\* attempted = false, the target is as it was when the call began and no
\* command has run.
C33_NotAttemptedLeavesTarget ==
    /\ \A u \in grabbers :
         (unit[u].pc \in {"lock", "store", "done"} /\ ~unit[u].attempted) =>
             /\ target[u] = startTarget[u]
             /\ unit[u].cmdIdx = 0
    /\ (dxPc \in {"cleanup", "returned"} /\ ~dxRet.attempted) => xtDir = xtDir0
C33_Witness ==
    /\ dxPc = "returned"
    /\ dxRet = [attempted |-> FALSE, err |-> Err("saving remote objects")]
    /\ Len(dmSent) = 2 /\ dmSent[1].err = Nil
    /\ Present(xtDir0) # {}
    /\ xtDir = xtDir0

\* C34: when an install has returned, the scratch directory it created has
\* had its removal attempted, on success and on every failure; the removal,
\* failed or not, leaves the returned error and the attempted flag as they
\* were.
C34_ScratchRemovalAttempted ==
    /\ [](xtPc \in {"done", "failed"} => xtScratch \in {"none", "removed", "left"})
    /\ [](dxPc = "returned" => xtScratch \in {"none", "removed", "left"})
    /\ []((xtPc \in {"done", "failed"} /\ xtScratch = "none") => xtErr = Err("creating temp dir"))
    /\ []((dxPc = "returned" /\ xtScratch = "none") => dxRet.err = Err("creating temp dir"))
    /\ [][xtScratch' # xtScratch /\ xtScratch = "made" =>
            /\ xtErr' = xtErr /\ dxRet' = dxRet
            /\ xtPc' = ExtractReturned(xtErr) \/ dxPc' = "returned"]_vars
C34_Witness ==
    /\ dxPc = "returned" /\ xtScratch = "left"
    /\ dxRet = [attempted |-> TRUE, err |-> Nil]
    /\ Present(xtTmp) # {}

(***************************************************************************)
(* Claims about two units on one target directory (SpecShared).            *)
(***************************************************************************)
MatchesNeither(n) == \A u \in Sharers : ~HasPrefix(n, shPrefix[u])
BothInstalled == \A u \in Sharers : shPc[u] = "done"

\* C35: two units on one target with replace prefixes of which neither
\* begins with the other, each copying only names under its own prefix: once
\* both installs have succeeded the target holds the entries of both
\* sources and the earlier entries that match neither prefix, and nothing
\* else, whatever the order of their clear and copy steps.
C35_SharedTargetResultIsOrderFree ==
    BothInstalled =>
        \A n \in EntryNames :
            xtDir[n] = IF shSrc[1][n] # Absent THEN shSrc[1][n]
                       ELSE IF shSrc[2][n] # Absent THEN shSrc[2][n]
                       ELSE IF MatchesNeither(n) THEN xtDir0[n]
                       ELSE Absent
C35_Witness ==
    /\ BothInstalled
    /\ \A u \in Sharers : Present(shSrc[u]) # {}
    /\ \E n \in EntryNames : MatchesNeither(n) /\ xtDir0[n] = OldFile /\ xtDir[n] = OldFile
    /\ \E n \in EntryNames : ~MatchesNeither(n) /\ xtDir0[n] = OldFile /\ xtDir[n] # OldFile

\* what Install of unit v would decide if it ran its check on directory dir
\* with change time ct
WouldInstall(v, dir, ct) ==
    InstallDecision(IsEmptyDir(Directory(Present(dir))).isEmpty,
                    checkLastModTime([modTime |-> shMod[v], bucketIndex |-> 0, err |-> Nil],
                                     cursor[v], ct)).proceed

\* C36: a clear or copy step of one unit on the shared target never makes
\* the other unit, whose object is newer than the target and whose check is
\* still to come, skip that object as NoUpdate.
C36_SiblingInstallKeepsUpdate ==
    [][\A u \in Sharers, v \in Sharers :
         (/\ u # v
          /\ shPc[u] \in {"clear", "copy"} /\ shPc'[u] # shPc[u]
          /\ shPc[v] = "check"
          /\ shMod[v] > SharedCtime
          /\ WouldInstall(v, xtDir, SharedCtime))
         => WouldInstall(v, xtDir', SharedCtime')]_vars

(***************************************************************************)
(* Claims about entry names that are paths (SpecPaths).                    *)
(***************************************************************************)
Under(path, dir) == HasPrefix(path, dir) /\ path # dir

\* C37: whatever the name of an archive entry, the file or directory made
\* for it lies inside the scratch directory; no path outside the scratch
\* directory and outside the target is created or overwritten.
C37_EntriesStayInScratch ==
    \A e \in tpFs : Under(e.path, ScratchDir) \/ Under(e.path, TargetDir)

(***************************************************************************)
(* Claims about the validation of the configuration (SpecValidate).        *)
(***************************************************************************)
\* C38: a configuration in which a grabber names both a file and a prefix,
\* or neither, is rejected when it is read: the program does not go on to
\* RunS3Grabber and no unit is built from it.
C38_BothOrNeitherIsRejected ==
    (\E u \in grabbers : kinds[u] \in {"both", "neither"}) =>
        /\ schedPc \in {"start", "exit1"}
        /\ \A u \in grabbers : unit[u].pc = "none"

====
